---- MODULE Spec2Model ----
(***************************************************************************)
(* Smart Retry decision engine (decision-api).                             *)
(*                                                                         *)
(* The repository holds several generations of the same engine:            *)
(*   src/lib/smart-retry-core.js  decideLoanV2 with configuration          *)
(*   src/unnamed/part_002         the same cascade with its date helpers   *)
(*   src/unnamed/part_003         decideRetries / applyRulesForLoan        *)
(*   src/unnamed/part_004         decideLoanV2 without configuration       *)
(*   src/unnamed/part_001         decideRetries, the scoring engine        *)
(*   src/unnamed/part_005         the HTTP handler that calls decideLoanV2 *)
(*                                                                         *)
(* Conventions of the model                                                *)
(*   - a JavaScript string is the sequence of its UTF-16 code units;       *)
(*   - a money amount is an integer number of cents (1.0 is 100);          *)
(*   - a confidence is an integer number of hundredths (0.99 is 99);       *)
(*   - a timestamp (Date) is an integer number of hours since              *)
(*     1970-01-01T00:00Z, an ISO string is the record of its fields.       *)
(***************************************************************************)
EXTENDS Integers, Sequences, FiniteSets, TLC

VARIABLES
  pc,        \* "call" before an operation ran, then the name of the operation
  features,  \* the features object handed to a rule cascade
  config,    \* the decision configuration in force
  now,       \* the decision moment (hours since the epoch)
  loan,      \* the loan record of a request, or its loans array
  txRows,    \* the transaction rows fetched for that loan
  result,    \* what the operation returned
  request,   \* the HTTP request a handler is serving: method, key header, key configured
  calls,     \* the services the handler has invoked so far, in order
  history    \* the rows a store-backed handler got from getHistoryForLoans

vars == <<pc, features, config, now, loan, txRows, result, request, calls, history>>

(***************************************************************************)
(* JavaScript strings                                                      *)
(***************************************************************************)

toUpperCase(s) ==
  LET ToUpperCode(c) ==
        IF (c >= 97 /\ c <= 122) \/ (c >= 224 /\ c <= 254 /\ c # 247) THEN c - 32 ELSE c
  IN  [i \in 1..Len(s) |-> ToUpperCode(s[i])]

toLowerCase(s) ==
  LET ToLowerCode(c) ==
        IF (c >= 65 /\ c <= 90) \/ (c >= 192 /\ c <= 222 /\ c # 215) THEN c + 32 ELSE c
  IN  [i \in 1..Len(s) |-> ToLowerCode(s[i])]

\* String.prototype.includes: k occurs in s as a contiguous substring.
includes(s, k) ==
  \/ Len(k) = 0
  \/ \E i \in 1..(Len(s) - Len(k) + 1) :
       s[i] = k[1] /\ SubSeq(s, i, i + Len(k) - 1) = k

\* String.prototype.trim
trim(s) ==
  LET IsSpace(c) == c \in {9, 10, 11, 12, 13, 32, 160}
      keep == {i \in 1..Len(s) : ~IsSpace(s[i])}
      lo   == CHOOSE i \in keep : \A j \in keep : i <= j
      hi   == CHOOSE i \in keep : \A j \in keep : j <= i
  IN  IF keep = {} THEN << >> ELSE SubSeq(s, lo, hi)

\* Array.prototype.some over a list of strings
someIncludes(list, s) == \E i \in 1..Len(list) : includes(s, list[i])

(***************************************************************************)
(* JavaScript values of a JSON field: a number, a numeric string, another  *)
(* string, null, NaN, or absent (undefined).                               *)
(***************************************************************************)

Undefined == [t |-> "undefined", n |-> 0]

Null      == [t |-> "null", n |-> 0]

NaN       == [t |-> "nan", n |-> 0]

Num(x)    == [t |-> "number", n |-> x]

NumStr(x) == [t |-> "numeric string", n |-> x]

\* Number(v)
Number(v) ==
  CASE v.t = "number"         -> v
    [] v.t = "numeric string" -> Num(v.n)
    [] v.t = "null"           -> Num(0)
    [] OTHER                  -> NaN

\* Number.isFinite(v): true of numbers only, never of strings
NumberIsFinite(v) == v.t = "number"

\* a ?? b
Nullish(a, b) == IF a.t \in {"undefined", "null"} THEN b ELSE a

\* the number v is when the code has checked Number.isFinite(v), else 0
FiniteOrZero(v) == IF NumberIsFinite(v) THEN Number(v).n ELSE 0

(***************************************************************************)
(* Dates (ECMAScript time values, in hours)                                *)
(***************************************************************************)

IsLeap(y) == (y % 4 = 0 /\ y % 100 # 0) \/ y % 400 = 0

\* ECMAScript DayFromYear
DayFromYear(y) ==
  365 * (y - 1970) + ((y - 1969) \div 4) - ((y - 1901) \div 100) + ((y - 1601) \div 400)

DaysInMonth(y, m) ==
  CASE m \in {0, 2, 4, 6, 7, 9, 11} -> 31
    [] m \in {3, 5, 8, 10}          -> 30
    [] OTHER                        -> IF IsLeap(y) THEN 29 ELSE 28

RECURSIVE DaysBeforeMonth(_, _)
DaysBeforeMonth(y, m) ==
  IF m = 0 THEN 0 ELSE DaysBeforeMonth(y, m - 1) + DaysInMonth(y, m - 1)

\* ECMAScript MakeDay: a month past 11 carries into the year and a day of the
\* month past the month's end (or before its first day) carries into the
\* neighbouring month, because the day is only added to the month's first day.
MakeDay(y, m, d) ==
  LET ym == y + (m \div 12)
      mn == m % 12
  IN  DayFromYear(ym) + DaysBeforeMonth(ym, mn) + d - 1

\* Date.UTC(year, month, day, hours, 0, 0) as a time value
DateUTC(y, m, d, h) == MakeDay(y, m, d) * 24 + h

ModelYears == 2023..2027

getUTCFullYear(t) ==
  CHOOSE y \in ModelYears : DayFromYear(y) <= (t \div 24) /\ (t \div 24) < DayFromYear(y + 1)

getUTCMonth(t) ==
  LET y   == getUTCFullYear(t)
      doy == (t \div 24) - DayFromYear(y)
  IN  CHOOSE m \in 0..11 :
        DaysBeforeMonth(y, m) <= doy /\ doy < DaysBeforeMonth(y, m) + DaysInMonth(y, m)

getUTCDate(t) ==
  LET y == getUTCFullYear(t)
  IN  (t \div 24) - DayFromYear(y) - DaysBeforeMonth(y, getUTCMonth(t)) + 1

\* Date.prototype.toISOString: the fields of the UTC date (month 1 to 12)
toISOString(t) ==
  [year  |-> getUTCFullYear(t),
   month |-> getUTCMonth(t) + 1,
   day   |-> getUTCDate(t),
   hour  |-> t % 24]

\* null where a date string is expected
NullDate == [year |-> 0, month |-> 0, day |-> 0, hour |-> 0]

(***************************************************************************)
(* String literals of the source                                           *)
(***************************************************************************)

\* "new"
s_new == <<110,101,119>>

\* "chargeback"
s_chargeback == <<99,104,97,114,103,101,98,97,99,107>>

\* "successful"
s_successful == <<115,117,99,99,101,115,115,102,117,108>>

\* "failed"
s_failed == <<102,97,105,108,101,100>>

\* "domiciliación dada de baja"
kw_domiciliacion_dada_de_baja == <<100,111,109,105,99,105,108,105,97,99,105,243,110,32,100,97,100,97,32,100,101,32,98,97,106,97>>

\* "cuenta inexistente"
kw_cuenta_inexistente == <<99,117,101,110,116,97,32,105,110,101,120,105,115,116,101,110,116,101>>

\* "cuenta no pertenece al banco receptor"
kw_cuenta_no_pertenece == <<99,117,101,110,116,97,32,110,111,32,112,101,114,116,101,110,101,99,101,32,97,108,32,98,97,110,99,111,32,114,101,99,101,112,116,111,114>>

\* "cuenta cancelada"
kw_cuenta_cancelada == <<99,117,101,110,116,97,32,99,97,110,99,101,108,97,100,97>>

\* "cuenta bloqueada"
kw_cuenta_bloqueada == <<99,117,101,110,116,97,32,98,108,111,113,117,101,97,100,97>>

\* "baja por oficina"
kw_baja_por_oficina == <<98,97,106,97,32,112,111,114,32,111,102,105,99,105,110,97>>

\* "cliente no tiene autorizado el servicio"
kw_cliente_no_autorizado == <<99,108,105,101,110,116,101,32,110,111,32,116,105,101,110,101,32,97,117,116,111,114,105,122,97,100,111,32,101,108,32,115,101,114,118,105,99,105,111>>

\* "AZTECA"
bank_AZTECA == <<65,90,84,69,67,65>>

\* "MONTERREY"
bank_MONTERREY == <<77,79,78,84,69,82,82,69,89>>

\* "Monterrey Regional"
bank_Monterrey_Regional == <<77,111,110,116,101,114,114,101,121,32,82,101,103,105,111,110,97,108>>

\* "Banco Azteca"
bank_Banco_Azteca == <<66,97,110,99,111,32,65,122,116,101,99,97>>

\* "BBVA"
bank_BBVA == <<66,66,86,65>>

\* "Cuenta con insuficiencia de fondos"
msg_insuficiencia == <<67,117,101,110,116,97,32,99,111,110,32,105,110,115,117,102,105,99,105,101,110,99,105,97,32,100,101,32,102,111,110,100,111,115>>

\* "Cuenta cancelada"
msg_cuenta_cancelada == <<67,117,101,110,116,97,32,99,97,110,99,101,108,97,100,97>>

\* "Por orden del cliente: Orden de no pagar a ese Emisor"
msg_orden_no_pagar == <<80,111,114,32,111,114,100,101,110,32,100,101,108,32,99,108,105,101,110,116,101,58,32,79,114,100,101,110,32,100,101,32,110,111,32,112,97,103,97,114,32,97,32,101,115,101,32,69,109,105,115,111,114>>

\* "Account closed"
msg_account_closed == <<65,99,99,111,117,110,116,32,99,108,111,115,101,100>>

(***************************************************************************)
(* Date helpers of src/lib/smart-retry-core.js                             *)
(***************************************************************************)

\* nextQuincenaDate(from): the 15th, the 30th, or the 15th of the next month
nextQuincenaDate(from) ==
  LET year  == getUTCFullYear(from)
      month == getUTCMonth(from)
      day   == getUTCDate(from)
      roll  == day > 30
      targetMonth == IF roll THEN (IF month + 1 > 11 THEN 0 ELSE month + 1) ELSE month
      targetYear  == IF roll /\ month + 1 > 11 THEN year + 1 ELSE year
      targetDay   == IF day <= 15 THEN 15 ELSE IF day <= 30 THEN 30 ELSE 15
  IN  toISOString(DateUTC(targetYear, targetMonth, targetDay, 0))

\* variant: the immediate date one hour after now
immediateRetryDate_plusHour(from) == toISOString(from + 1)

\* immediateRetryDate(from): the same instant
immediateRetryDate(from) == toISOString(from)

(***************************************************************************)
(* Date helpers of src/unnamed/part_002                                    *)
(***************************************************************************)

\* nextQuincenaDate(now): the 15th or the 30th of the month in course, 6am
nextQuincenaDate_p002(nowT) ==
  LET day   == getUTCDate(nowT)
      month == getUTCMonth(nowT)
      year  == getUTCFullYear(nowT)
  IN  IF day <= 15 THEN DateUTC(year, month, 15, 6) ELSE DateUTC(year, month, 30, 6)

(***************************************************************************)
(* Date helpers of src/unnamed/part_003                                    *)
(***************************************************************************)

\* nextQuincenaUtc(today): the 15th, or the 30th clamped to the month's end
nextQuincenaUtc(today) ==
  LET year  == getUTCFullYear(today)
      month == getUTCMonth(today)
      day   == getUTCDate(today)
      target == IF day <= 15 THEN 15 ELSE 30
      lastDayOfMonth == getUTCDate(DateUTC(year, month + 1, 0, 0))
      targetDay == IF target > lastDayOfMonth THEN lastDayOfMonth ELSE target
  IN  DateUTC(year, month, targetDay, 0)

\* startOfDayUtc(date)
startOfDayUtc(date) ==
  DateUTC(getUTCFullYear(date), getUTCMonth(date), getUTCDate(date), 0)

(***************************************************************************)
(* Configuration (src/lib/smart-retry-core.js, DEFAULT_DECISION_CONFIG)    *)
(***************************************************************************)

\* an amount of x currency units, in cents
Money(x) == x * 100

DEFAULT_CONFIDENCE ==
  [stopSettled              |-> 99,
   stopChargeback           |-> 95,
   stopByCustomer           |-> 90,
   stopHardDecline          |-> 90,
   stopPossibleError        |-> 75,
   stopZombieLimit          |-> 85,
   stopAttemptsLimit        |-> 85,
   stopKillBank             |-> 85,
   scheduleZombie           |-> 70,
   scheduleRiskAmount       |-> 70,
   scheduleStandardQuincena |-> 60,
   retryMicroDebt           |-> 80,
   retryFresh               |-> 80,
   retryStandard            |-> 65,
   retryDefault             |-> 60]

DEFAULT_DECISION_CONFIG ==
  [microDebtThreshold  |-> Money(1000),
   zombieDaysThreshold |-> 365,
   maxAttempts         |-> 12,
   zombieMaxAttempts   |-> 3,
   freshDaysThreshold  |-> 5,
   highAmountThreshold |-> Money(5000),
   riskBanks           |-> <<bank_AZTECA>>,
   killBanks           |-> <<bank_MONTERREY>>,
   confidence          |-> DEFAULT_CONFIDENCE]

(***************************************************************************)
(* The rule cascade of src/lib/smart-retry-core.js                         *)
(***************************************************************************)

\* makeDecision(decision, reason, nextDate, confidence) with its loanId
makeDecision(loanId, decision, reason, nextDate, confidence) ==
  [outcome           |-> "returned",
   loan_id           |-> loanId,
   decision          |-> decision,
   decision_reason   |-> reason,
   next_attempt_date |-> nextDate,
   confidence        |-> confidence]

\* an exception leaves the function: nothing is returned
Throws(loanId, error) ==
  [outcome           |-> "thrown",
   loan_id           |-> loanId,
   decision          |-> "",
   decision_reason   |-> error,
   next_attempt_date |-> NullDate,
   confidence        |-> 0]

\* the JavaScript || on a string: the fallback for the empty (or absent) one
OrString(s, fallback) == IF s = << >> THEN fallback ELSE s

isByCustomerOrder(msgLower) ==
  \* "por orden del cliente"
  \/ includes(msgLower, <<112,111,114,32,111,114,100,101,110,32,100,101,108,32,99,108,105,101,110,116,101>>)
  \* "cancelación del servicio"
  \/ includes(msgLower, <<99,97,110,99,101,108,97,99,105,243,110,32,100,101,108,32,115,101,114,118,105,99,105,111>>)
  \/ includes(msgLower, kw_domiciliacion_dada_de_baja)

isPossibleError(msgLower) ==
  \/ includes(msgLower, kw_cuenta_inexistente)
  \/ includes(msgLower, kw_cuenta_no_pertenece)

isHardDeclineGeneric(msgLower) ==
  \/ includes(msgLower, kw_cuenta_cancelada)
  \/ includes(msgLower, kw_cuenta_bloqueada)
  \/ includes(msgLower, kw_baja_por_oficina)
  \/ includes(msgLower, kw_cliente_no_autorizado)

\* the file calls standardRetryDate(now) at lines 297 and 316 and neither
\* defines nor imports it: evaluating the call raises a ReferenceError
standardRetryDate(loanId, nowT) ==
  Throws(loanId, "ReferenceError: standardRetryDate is not defined")

\* variant: a balance of exactly 1.0 is not settled
isSettled_strict(amount) == amount < Money(1)

\* rule 0: the balance is practically zero
isSettled(amount) == amount <= Money(1)

isZombie(overdueDays, cfg) == overdueDays > cfg.zombieDaysThreshold

isMicroDebt(amount, cfg) == amount > 0 /\ amount < cfg.microDebtThreshold

\* variant: the threshold itself is no longer fresh
isFresh_strict(overdueDays, cfg) == overdueDays < cfg.freshDaysThreshold

isFresh(overdueDays, cfg) == overdueDays <= cfg.freshDaysThreshold

\* config.killBanks.some((b) => bank.includes(b)), bank in upper case
isKillBank(bank, cfg) == someIncludes(cfg.killBanks, bank)

\* config.riskBanks.some((b) => bank.includes(b)), bank in upper case
isRiskBank(bank, cfg) == someIncludes(cfg.riskBanks, bank)

reachedZombieLimit(attempts, cfg) == attempts >= cfg.zombieMaxAttempts

\* variant: the limit itself is still allowed
reachedMaxAttempts_strict(attempts, cfg) == attempts > cfg.maxAttempts

\* variant: only the limit itself stops
reachedMaxAttempts_exactly(attempts, cfg) == attempts = cfg.maxAttempts

reachedMaxAttempts(attempts, cfg) == attempts >= cfg.maxAttempts

isHighAmount(amount, cfg) == amount > cfg.highAmountThreshold

isMidRange(overdueDays) == overdueDays >= 6 /\ overdueDays <= 20

isAged(overdueDays) == overdueDays > 20

decideLoanV2(f, nowT, cfg) ==
  LET loanId      == f.loan_id
      bank        == toUpperCase(f.payment_method_bank)
      msg         == toLowerCase(f.failed_message)
      lastStatus  == toLowerCase(OrString(f.last_req_status, s_new))
      overdueDays == FiniteOrZero(f.overdue_days)
      amount      == FiniteOrZero(f.total_amount_outstanding)
      attempts    == FiniteOrZero(f.intentos_ciclo_actual)
      c           == cfg.confidence
  IN  IF isSettled(amount) THEN
        makeDecision(loanId, "STOP", "STOP: Deuda Saldada (Saldo $0)", NullDate, c.stopSettled)
      ELSE IF lastStatus = s_chargeback THEN
        makeDecision(loanId, "STOP", "STOP: Riesgo Chargeback", NullDate, c.stopChargeback)
      ELSE IF isByCustomerOrder(msg) THEN
        makeDecision(loanId, "STOP", "STOP: Por orden del cliente", NullDate, c.stopByCustomer)
      ELSE IF isPossibleError(msg) THEN
        makeDecision(loanId, "STOP", "STOP: Posible error (Cuenta inválida)", NullDate,
                     c.stopPossibleError)
      ELSE IF isHardDeclineGeneric(msg) THEN
        makeDecision(loanId, "STOP", "STOP: Cuenta Inválida (Hard Decline)", NullDate,
                     c.stopHardDecline)
      ELSE IF isKillBank(bank, cfg) THEN
        makeDecision(loanId, "STOP", "STOP: Banco Bloqueado", NullDate, c.stopKillBank)
      ELSE IF isZombie(overdueDays, cfg) THEN
        IF reachedZombieLimit(attempts, cfg) THEN
          makeDecision(loanId, "STOP", "STOP: Límite Antigüedad (>1 año)", NullDate,
                       c.stopZombieLimit)
        ELSE
          makeDecision(loanId, "SCHEDULE", "SCHEDULE: Solo Quincena (Zombie)",
                       nextQuincenaDate(nowT), c.scheduleZombie)
      ELSE IF reachedMaxAttempts(attempts, cfg) THEN
        makeDecision(loanId, "STOP",
                     "STOP: Máximo de Intentos (" \o ToString(cfg.maxAttempts) \o ")",
                     NullDate, c.stopAttemptsLimit)
      ELSE IF isMicroDebt(amount, cfg) THEN
        makeDecision(loanId, "RETRY", "RETRY: Inmediato (Micro-Deuda)",
                     immediateRetryDate(nowT), c.retryMicroDebt)
      ELSE IF isFresh(overdueDays, cfg) THEN
        makeDecision(loanId, "RETRY", "RETRY: Inmediato (Fresca)",
                     immediateRetryDate(nowT), c.retryFresh)
      ELSE IF isRiskBank(bank, cfg) \/ isHighAmount(amount, cfg) THEN
        makeDecision(loanId, "SCHEDULE", "SCHEDULE: Próxima Quincena (Riesgo/Monto)",
                     nextQuincenaDate(nowT), c.scheduleRiskAmount)
      ELSE IF isMidRange(overdueDays) THEN
        standardRetryDate(loanId, nowT)
      ELSE IF isAged(overdueDays) THEN
        makeDecision(loanId, "SCHEDULE", "SCHEDULE: Próxima Quincena",
                     nextQuincenaDate(nowT), c.scheduleStandardQuincena)
      ELSE
        standardRetryDate(loanId, nowT)

(***************************************************************************)
(* JavaScript numbers that may be NaN: every comparison with NaN is false  *)
(***************************************************************************)

JsLE(v, k) == v.t = "number" /\ v.n <= k

JsLT(v, k) == v.t = "number" /\ v.n < k

JsGE(v, k) == v.t = "number" /\ v.n >= k

JsGT(v, k) == v.t = "number" /\ v.n > k

\* truthiness of a field value (a non-empty string is truthy)
Truthy(v) ==
  CASE v.t \in {"undefined", "null", "nan"} -> FALSE
    [] v.t = "number"                        -> v.n # 0
    [] OTHER                                 -> TRUE

\* a || b
OrVal(a, b) == IF Truthy(a) THEN a ELSE b

(***************************************************************************)
(* The rule cascade of src/unnamed/part_003 (applyRulesForLoan)            *)
(***************************************************************************)

\* ['cancelada', 'inexistente', 'fallecimiento', 'fraude', 'baja']
fatalKeywords ==
  <<<<99,97,110,99,101,108,97,100,97>>,
    <<105,110,101,120,105,115,116,101,110,116,101>>,
    <<102,97,108,108,101,99,105,109,105,101,110,116,111>>,
    <<102,114,97,117,100,101>>,
    <<98,97,106,97>>>>

\* buildDecision(decisionType, label) with the two dates of its closure
buildDecision(decisionType, label, immediateDate, quincenaDate) ==
  [outcome         |-> "returned",
   decision        |-> decisionType,
   decision_reason |-> label,
   reason          |-> label,
   confidence      |-> IF decisionType = "STOP" THEN 90
                       ELSE IF decisionType = "RETRY" THEN 75 ELSE 60,
   proposed_date   |-> IF decisionType = "RETRY" THEN toISOString(immediateDate)
                       ELSE IF decisionType = "SCHEDULE" THEN toISOString(quincenaDate)
                       ELSE NullDate,
   should_retry    |-> decisionType # "STOP"]

applyRulesForLoan(ln, state, today) ==
  LET bank           == toUpperCase(ln.payment_method_bank)
      msg            == toLowerCase(state.failed_message)
      lastStatus     == toLowerCase(OrString(state.last_req_status, s_new))
      intentos       == Number(OrVal(state.intentos_ciclo_actual, Num(0)))
      diasMora       == Number(Nullish(ln.overdue_days, Num(0)))
      montoPendiente == Number(Nullish(ln.total_amount_outstanding,
                                       Nullish(ln.loan_amount, Num(0))))
      quincenaDate   == nextQuincenaUtc(today)
      immediateDate  == startOfDayUtc(today)
      B(decisionType, label) == buildDecision(decisionType, label, immediateDate, quincenaDate)
  IN  IF JsLE(montoPendiente, Money(1)) THEN
        B("STOP", "STOP: Deuda Saldada (Saldo $0)")
      ELSE IF lastStatus = s_chargeback THEN
        B("STOP", "STOP: Riesgo Chargeback")
      ELSE IF someIncludes(fatalKeywords, msg) THEN
        B("STOP", "STOP: Cuenta Inválida (Hard Decline)")
      ELSE IF includes(bank, bank_MONTERREY) THEN
        B("STOP", "STOP: Banco Bloqueado")
      ELSE IF JsGT(diasMora, 365) THEN
        IF JsGE(intentos, 3) THEN
          B("STOP", "STOP: Límite Antigüedad (>1 año)")
        ELSE
          B("SCHEDULE", "SCHEDULE: Solo Quincena (Zombie)")
      ELSE IF JsGE(intentos, 12) THEN
        B("STOP", "STOP: Máximo de Intentos (12)")
      ELSE IF JsLT(montoPendiente, Money(1000)) THEN
        B("RETRY", "RETRY: Inmediato (Micro-Deuda)")
      ELSE IF JsLE(diasMora, 5) THEN
        B("RETRY", "RETRY: Inmediato (Fresca)")
      ELSE IF includes(bank, bank_AZTECA) \/ JsGT(montoPendiente, Money(5000)) THEN
        B("SCHEDULE", "SCHEDULE: Próxima Quincena (Riesgo/Monto)")
      ELSE IF JsGE(diasMora, 6) /\ JsLE(diasMora, 20) THEN
        B("RETRY", "RETRY: Estándar (Cada 4 días)")
      ELSE IF JsGT(diasMora, 20) THEN
        B("SCHEDULE", "SCHEDULE: Próxima Quincena")
      ELSE
        B("RETRY", "RETRY: Estándar")

(***************************************************************************)
(* The rule cascade of src/unnamed/part_004 (decideLoanV2, no config)      *)
(***************************************************************************)

normalizeBank(bank) == toUpperCase(bank)

normalizeMsg(msg) == trim(toLowerCase(msg))

\* a decision record of part_004: no confidence field
decisionRecord_p004(loanId, decision, reason, nextDate) ==
  [outcome           |-> "returned",
   loan_id           |-> loanId,
   decision          |-> decision,
   decision_reason   |-> reason,
   next_attempt_date |-> nextDate]

\* attemptsForLimits: the counter reads 0 after a success
attemptsForLimits(lastStatus, attemptsRaw) ==
  IF lastStatus = s_successful THEN 0 ELSE attemptsRaw

decideLoanV2_p004(f, nowT) ==
  LET loanId      == f.loan_id
      bank        == normalizeBank(f.payment_method_bank)
      msg         == normalizeMsg(f.failed_message)
      lastStatus  == toLowerCase(OrString(f.last_req_status, s_new))
      daysOverdue == Number(Nullish(f.overdue_days, Num(0)))
      amount      == Number(Nullish(f.total_amount_outstanding, Num(0)))
      attemptsRaw == OrVal(Number(Nullish(f.intentos_ciclo_actual, Num(0))), Num(0)).n
      attempts    == attemptsForLimits(lastStatus, attemptsRaw)
      isZombieDebt == JsGT(daysOverdue, 365)
      \* "insuficiencia de fondos"
      isInsuficienciaFondos == includes(msg, <<105,110,115,117,102,105,99,105,101,110,99,105,97,32,100,101,32,102,111,110,100,111,115>>)
      isOrdenCliente ==
        \* "por orden del cliente: orden de no pagar a ese emisor"
        \/ includes(msg, <<112,111,114,32,111,114,100,101,110,32,100,101,108,32,99,108,105,101,110,116,101,58,32,111,114,100,101,110,32,100,101,32,110,111,32,112,97,103,97,114,32,97,32,101,115,101,32,101,109,105,115,111,114>>)
        \* "por orden del cliente: cancelación del servicio"
        \/ includes(msg, <<112,111,114,32,111,114,100,101,110,32,100,101,108,32,99,108,105,101,110,116,101,58,32,99,97,110,99,101,108,97,99,105,243,110,32,100,101,108,32,115,101,114,118,105,99,105,111>>)
        \/ includes(msg, kw_domiciliacion_dada_de_baja)
      isPosibleError ==
        \/ includes(msg, kw_cuenta_inexistente)
        \/ includes(msg, kw_cuenta_no_pertenece)
      isOtherHardDecline ==
        /\ \/ includes(msg, kw_cuenta_cancelada)
           \/ includes(msg, kw_cuenta_bloqueada)
           \/ includes(msg, kw_cliente_no_autorizado)
           \/ includes(msg, kw_baja_por_oficina)
        /\ ~isInsuficienciaFondos
      D(decision, reason, nextDate) == decisionRecord_p004(loanId, decision, reason, nextDate)
  IN  IF JsLE(amount, Money(1)) THEN
        D("STOP", "STOP: Deuda Saldada (Saldo $0)", NullDate)
      ELSE IF lastStatus = s_chargeback THEN
        D("STOP", "STOP: Riesgo Chargeback", NullDate)
      ELSE IF isOrdenCliente THEN
        D("STOP", "STOP: Por orden del cliente", NullDate)
      ELSE IF isPosibleError THEN
        D("STOP", "STOP: Posible error (Cuenta inválida)", NullDate)
      ELSE IF isOtherHardDecline THEN
        D("STOP", "STOP: Cuenta Inválida (Hard Decline)", NullDate)
      ELSE IF includes(bank, bank_MONTERREY) THEN
        D("STOP", "STOP: Banco Bloqueado", NullDate)
      ELSE IF isZombieDebt THEN
        IF attempts >= 3 THEN
          D("STOP", "STOP: Límite Antigüedad (>1 año)", NullDate)
        ELSE
          D("SCHEDULE", "SCHEDULE: Solo Quincena (Zombie)", nextQuincenaDate(nowT))
      ELSE IF attempts >= 12 THEN
        D("STOP", "STOP: Máximo de Intentos (12)", NullDate)
      ELSE IF JsLT(amount, Money(1000)) THEN
        D("RETRY", "RETRY: Inmediato (Micro-Deuda)", immediateRetryDate(nowT))
      ELSE IF JsLE(daysOverdue, 5) THEN
        D("RETRY", "RETRY: Inmediato (Fresca)", immediateRetryDate(nowT))
      ELSE IF includes(bank, bank_AZTECA) \/ JsGT(amount, Money(5000)) THEN
        D("SCHEDULE", "SCHEDULE: Próxima Quincena (Riesgo/Monto)", nextQuincenaDate(nowT))
      ELSE IF JsGE(daysOverdue, 6) /\ JsLE(daysOverdue, 20) THEN
        D("RETRY", "RETRY: Estándar (Cada 4 días)", immediateRetryDate(nowT))
      ELSE IF JsGT(daysOverdue, 20) THEN
        D("SCHEDULE", "SCHEDULE: Próxima Quincena", nextQuincenaDate(nowT))
      ELSE
        D("RETRY", "RETRY: Estándar", immediateRetryDate(nowT))

(***************************************************************************)
(* Inputs                                                                  *)
(***************************************************************************)

\* a configuration as the caller may supply it
ConfigWith(maxAttempts, zombieMaxAttempts, killBanks, confidence) ==
  [DEFAULT_DECISION_CONFIG EXCEPT !.maxAttempts       = maxAttempts,
                                  !.zombieMaxAttempts = zombieMaxAttempts,
                                  !.killBanks         = killBanks,
                                  !.confidence        = confidence]

\* a confidence table whose fifteen values are pairwise different
DistinctConfidence ==
  [stopSettled              |-> 98,
   stopChargeback           |-> 97,
   stopByCustomer           |-> 96,
   stopHardDecline          |-> 94,
   stopPossibleError        |-> 76,
   stopZombieLimit          |-> 86,
   stopAttemptsLimit        |-> 84,
   stopKillBank             |-> 83,
   scheduleZombie           |-> 71,
   scheduleRiskAmount       |-> 69,
   scheduleStandardQuincena |-> 61,
   retryMicroDebt           |-> 81,
   retryFresh               |-> 79,
   retryStandard            |-> 66,
   retryDefault             |-> 59]

\* other thresholds than the defaults
AltThresholdsConfig ==
  [microDebtThreshold  |-> Money(50),
   zombieDaysThreshold |-> 20,
   maxAttempts         |-> 4,
   zombieMaxAttempts   |-> 2,
   freshDaysThreshold  |-> 6,
   highAmountThreshold |-> Money(1000),
   riskBanks           |-> <<bank_BBVA>>,
   killBanks           |-> <<bank_AZTECA>>,
   confidence          |-> DistinctConfidence]

\* the default configuration, one with a lower-case kill-list entry, and one
\* with other thresholds, lists and confidences
ConfigInputs ==
  {DEFAULT_DECISION_CONFIG,
   \* "monterrey"
   ConfigWith(12, 3, << <<109,111,110,116,101,114,114,101,121>> >>, DEFAULT_CONFIDENCE),
   AltThresholdsConfig}

\* the attempt limits a caller may configure, the rest as the defaults
LimitConfigInputs ==
  {ConfigWith(m, z, <<bank_MONTERREY>>, DEFAULT_CONFIDENCE) :
     m \in {0, 3, 12}, z \in {0, 3, 13}} \ {DEFAULT_DECISION_CONFIG}

\* amounts around 1.0 and around the two amount thresholds of a configuration
AmountInputs(cfg) ==
  {Undefined, Num(0), Num(Money(1)), Num(Money(1) + 1),
   Num(cfg.microDebtThreshold - 1), Num(cfg.microDebtThreshold),
   Num(cfg.highAmountThreshold), Num(cfg.highAmountThreshold + 1)}

\* delinquency ages around the fresh, mid-range and zombie thresholds
OverdueInputs(cfg) ==
  {Undefined, Num(cfg.freshDaysThreshold), Num(cfg.freshDaysThreshold + 1),
   Num(20), Num(21),
   Num(cfg.zombieDaysThreshold), Num(cfg.zombieDaysThreshold + 1)}

\* attempt counters around the two attempt limits
AttemptInputs(cfg) ==
  {Num(0), Num(cfg.zombieMaxAttempts - 1), Num(cfg.zombieMaxAttempts),
   Num(cfg.maxAttempts - 1), Num(cfg.maxAttempts), Num(cfg.maxAttempts + 1)}

\* "Chargeback", as a store may spell it
s_Chargeback == <<67,104,97,114,103,101,98,97,99,107>>

MessageInputs ==
  \* "Cuenta inexistente"
  {<< >>, msg_insuficiencia, msg_cuenta_cancelada, msg_orden_no_pagar, <<67,117,101,110,116,97,32,105,110,101,120,105,115,116,101,110,116,101>>,
   \* "Cuenta bloqueada por insuficiencia de fondos"
   <<67,117,101,110,116,97,32,98,108,111,113,117,101,97,100,97,32,112,111,114,32,105,110,115,117,102,105,99,105,101,110,99,105,97,32,100,101,32,102,111,110,100,111,115>>}

FeatureInputs(cfg) ==
  [loan_id                  : {"L1"},
   payment_method_bank      : {bank_Monterrey_Regional, bank_Banco_Azteca, bank_BBVA},
   total_amount_outstanding : AmountInputs(cfg),
   overdue_days             : OverdueInputs(cfg),
   intentos_ciclo_actual    : AttemptInputs(cfg),
   last_req_status          : {s_failed, s_Chargeback, s_successful},
   failed_message           : MessageInputs]

\* the features tried under the attempt-limit configurations: no message
LimitFeatureInputs(cfg) ==
  {f \in FeatureInputs(cfg) :
     f.failed_message = << >> /\ f.last_req_status # s_Chargeback}

NoLoan == [loan_id |-> ""]

(***************************************************************************)
(* SpecRules: one call of a rule cascade on a features object              *)
(***************************************************************************)

InitRules ==
  /\ pc = "call"
  /\ \/ config \in ConfigInputs /\ features \in FeatureInputs(config)
     \/ config \in LimitConfigInputs /\ features \in LimitFeatureInputs(config)
  \* the decision moment of the rule calls: 20 February 2025, 09:00 UTC
  /\ now = DateUTC(2025, 1, 20, 9)
  /\ loan = NoLoan
  /\ txRows = << >>
  /\ result = [outcome |-> "none"]
  /\ request = [handler |-> "none"]
  /\ calls = << >>
  /\ history = << >>

\* decideLoanV2(features, now, config) of src/lib/smart-retry-core.js
Call_decideLoanV2 ==
  /\ pc = "call"
  /\ result' = decideLoanV2(features, now, config)
  /\ pc' = "decideLoanV2"
  /\ UNCHANGED <<features, config, now, loan, txRows, request, calls, history>>

\* the loan part and the state part of a features object
LoanOf(f) ==
  [loan_id                  |-> f.loan_id,
   payment_method_bank      |-> f.payment_method_bank,
   total_amount_outstanding |-> f.total_amount_outstanding,
   overdue_days             |-> f.overdue_days,
   loan_amount              |-> Undefined]

StateOf(f) ==
  [intentos_ciclo_actual |-> f.intentos_ciclo_actual,
   last_req_status       |-> f.last_req_status,
   failed_message        |-> f.failed_message]

\* applyRulesForLoan(loan, state, today) of src/unnamed/part_003
Call_applyRulesForLoan ==
  /\ pc = "call"
  /\ result' = applyRulesForLoan(LoanOf(features), StateOf(features), now)
  /\ pc' = "applyRulesForLoan"
  /\ UNCHANGED <<features, config, now, loan, txRows, request, calls, history>>

\* decideLoanV2(features, now) of src/unnamed/part_004
Call_decideLoanV2_p004 ==
  /\ pc = "call"
  /\ result' = decideLoanV2_p004(features, now)
  /\ pc' = "decideLoanV2_p004"
  /\ UNCHANGED <<features, config, now, loan, txRows, request, calls, history>>

NextRules ==
  \/ Call_decideLoanV2
  \/ Call_applyRulesForLoan
  \/ Call_decideLoanV2_p004

SpecRules == InitRules /\ [][NextRules]_vars

(***************************************************************************)
(* Claims about the rule cascade                                           *)
(***************************************************************************)

\* what a call on the current features reads
AmountRead   == FiniteOrZero(features.total_amount_outstanding)

OverdueRead  == FiniteOrZero(features.overdue_days)

AttemptsRead == FiniteOrZero(features.intentos_ciclo_actual)

StatusRead   == toLowerCase(OrString(features.last_req_status, s_new))

MessageRead  == toLowerCase(features.failed_message)

\* the number (1 to 14) of the first rule of the specified order that matches
ClaimedRule ==
  IF AmountRead <= Money(1) THEN 1
  ELSE IF StatusRead = s_chargeback THEN 2
  ELSE IF isByCustomerOrder(MessageRead) THEN 3
  ELSE IF isPossibleError(MessageRead) THEN 4
  ELSE IF isHardDeclineGeneric(MessageRead) THEN 5
  ELSE IF \E i \in 1..Len(config.killBanks) :
            includes(toUpperCase(features.payment_method_bank), config.killBanks[i]) THEN 6
  ELSE IF OverdueRead > config.zombieDaysThreshold THEN 7
  ELSE IF AttemptsRead >= config.maxAttempts THEN 8
  ELSE IF 0 < AmountRead /\ AmountRead < config.microDebtThreshold THEN 9
  ELSE IF OverdueRead <= config.freshDaysThreshold THEN 10
  ELSE IF \/ \E i \in 1..Len(config.riskBanks) :
               includes(toUpperCase(features.payment_method_bank), config.riskBanks[i])
          \/ AmountRead > config.highAmountThreshold THEN 11
  ELSE IF 6 <= OverdueRead /\ OverdueRead <= 20 THEN 12
  ELSE IF OverdueRead > 20 THEN 13
  ELSE 14

\* the decision and the configured confidence the specification gives a rule
ClaimedDecision(rule) ==
  CASE rule = 1  -> <<"STOP", config.confidence.stopSettled>>
    [] rule = 2  -> <<"STOP", config.confidence.stopChargeback>>
    [] rule = 3  -> <<"STOP", config.confidence.stopByCustomer>>
    [] rule = 4  -> <<"STOP", config.confidence.stopPossibleError>>
    [] rule = 5  -> <<"STOP", config.confidence.stopHardDecline>>
    [] rule = 6  -> <<"STOP", config.confidence.stopKillBank>>
    [] rule = 7  -> IF AttemptsRead >= config.zombieMaxAttempts
                    THEN <<"STOP", config.confidence.stopZombieLimit>>
                    ELSE <<"SCHEDULE", config.confidence.scheduleZombie>>
    [] rule = 8  -> <<"STOP", config.confidence.stopAttemptsLimit>>
    [] rule = 9  -> <<"RETRY", config.confidence.retryMicroDebt>>
    [] rule = 10 -> <<"RETRY", config.confidence.retryFresh>>
    [] rule = 11 -> <<"SCHEDULE", config.confidence.scheduleRiskAmount>>
    [] rule = 12 -> <<"RETRY", config.confidence.retryStandard>>
    [] rule = 13 -> <<"SCHEDULE", config.confidence.scheduleStandardQuincena>>
    [] OTHER     -> <<"RETRY", config.confidence.retryDefault>>

\* the reason each rule of the cascade writes
ClaimedReason(rule) ==
  CASE rule = 1  -> "STOP: Deuda Saldada (Saldo $0)"
    [] rule = 2  -> "STOP: Riesgo Chargeback"
    [] rule = 3  -> "STOP: Por orden del cliente"
    [] rule = 4  -> "STOP: Posible error (Cuenta inválida)"
    [] rule = 5  -> "STOP: Cuenta Inválida (Hard Decline)"
    [] rule = 6  -> "STOP: Banco Bloqueado"
    [] rule = 7  -> IF AttemptsRead >= config.zombieMaxAttempts
                    THEN "STOP: Límite Antigüedad (>1 año)"
                    ELSE "SCHEDULE: Solo Quincena (Zombie)"
    [] rule = 8  -> "STOP: Máximo de Intentos (" \o ToString(config.maxAttempts) \o ")"
    [] rule = 9  -> "RETRY: Inmediato (Micro-Deuda)"
    [] rule = 10 -> "RETRY: Inmediato (Fresca)"
    [] rule = 11 -> "SCHEDULE: Próxima Quincena (Riesgo/Monto)"
    [] rule = 12 -> "RETRY: Estándar (Cada 4 días)"
    [] rule = 13 -> "SCHEDULE: Próxima Quincena"
    [] OTHER     -> "RETRY: Estándar"

\* C1: for every features input decideLoanV2 returns the decision, the reason
\* and the configured confidence of the first rule that matches, in the
\* order settled, chargeback, customer stop, possible error, hard decline,
\* kill-list, zombie, max attempts, micro-debt, fresh, risk bank or high
\* amount, mid-range, aged, default.
C1_FirstMatchingRule ==
  pc = "decideLoanV2" =>
    /\ result.outcome = "returned"
    /\ result.decision = ClaimedDecision(ClaimedRule)[1]
    /\ result.confidence = ClaimedDecision(ClaimedRule)[2]
    /\ result.decision_reason = ClaimedReason(ClaimedRule)

\* C1, the part the code keeps: outside the mid-range and the default rule
\* the returned decision is that of the first matching rule.
C1_FirstMatchingRuleBeforeStandardRetry ==
  (pc = "decideLoanV2" /\ ClaimedRule \notin {12, 14}) =>
    /\ result.outcome = "returned"
    /\ result.decision = ClaimedDecision(ClaimedRule)[1]
    /\ result.confidence = ClaimedDecision(ClaimedRule)[2]
    /\ result.decision_reason = ClaimedReason(ClaimedRule)

\* the operation that ran is one of the three rule cascades
RuleCallDone == pc \in {"decideLoanV2", "applyRulesForLoan", "decideLoanV2_p004"}

\* the date field of a rule cascade's decision
DateOf(r) == IF pc = "applyRulesForLoan" THEN r.proposed_date ELSE r.next_attempt_date

\* the amount field is a number not above 1.0
AmountAtMostOne ==
  /\ features.total_amount_outstanding.t = "number"
  /\ features.total_amount_outstanding.n <= Money(1)

\* C2: a loan with total_amount_outstanding <= 1.0 is decided STOP with the
\* settled reason and no next-attempt date, whatever its bank, age, attempts,
\* last status, failure message and the configuration.
C2_SettledAlwaysStops ==
  (RuleCallDone /\ AmountAtMostOne) =>
    /\ result.outcome = "returned"
    /\ result.decision = "STOP"
    /\ result.decision_reason = "STOP: Deuda Saldada (Saldo $0)"
    /\ DateOf(result) = NullDate

\* C2 witness: decideLoanV2 has decided a loan of exactly 1.0 that is
\* charged back, on the kill-list and a zombie with a customer-stop message.
C2_Witness ==
  /\ pc = "decideLoanV2"
  /\ features.total_amount_outstanding = Num(Money(1))
  /\ StatusRead = s_chargeback
  /\ features.failed_message = msg_orden_no_pagar
  /\ features.payment_method_bank = bank_Monterrey_Regional
  /\ OverdueRead > config.zombieDaysThreshold
  /\ AttemptsRead >= config.maxAttempts
  /\ result.decision_reason = "STOP: Deuda Saldada (Saldo $0)"

\* the attempt counter part_004 checks against its limits
AttemptsForLimitsRead == attemptsForLimits(StatusRead, AttemptsRead)

\* C4: a loan with attempts_in_cycle >= maxAttempts that the zombie rule does
\* not handle (overdue_days <= zombieDaysThreshold) is decided STOP, for
\* every configured maxAttempts and zombieMaxAttempts (decideLoanV2); with
\* the fixed limits 12 and 365 of part_004 the same holds of the counter it
\* checks.
C4_MaxAttemptsStops ==
  /\ (/\ pc = "decideLoanV2"
      /\ AttemptsRead >= config.maxAttempts
      /\ OverdueRead <= config.zombieDaysThreshold)
     => (result.outcome = "returned" /\ result.decision = "STOP")
  /\ (/\ pc = "decideLoanV2_p004"
      /\ AttemptsForLimitsRead >= 12
      /\ OverdueRead <= 365)
     => (result.outcome = "returned" /\ result.decision = "STOP")

\* C4 witness: the max-attempts rule itself has stopped a loan, under a
\* configuration whose zombie limit is above its attempt limit.
C4_Witness ==
  /\ pc = "decideLoanV2"
  /\ config.zombieMaxAttempts > config.maxAttempts
  /\ config.maxAttempts > 0
  /\ AttemptsRead = config.maxAttempts
  /\ OverdueRead = config.zombieDaysThreshold
  /\ result.decision_reason =
       "STOP: Máximo de Intentos (" \o ToString(config.maxAttempts) \o ")"

\* no rule before the kill-list stops the loan
NotStoppedBeforeKillList ==
  /\ AmountRead > Money(1)
  /\ StatusRead # s_chargeback
  /\ ~isByCustomerOrder(MessageRead)
  /\ ~isPossibleError(MessageRead)
  /\ ~isHardDeclineGeneric(MessageRead)

\* the bank name contains a configured kill-list entry, letter case ignored
OnKillListIgnoringCase ==
  \E i \in 1..Len(config.killBanks) :
    includes(toLowerCase(features.payment_method_bank), toLowerCase(config.killBanks[i]))

\* C6: a loan no earlier rule stops and whose bank name contains a configured
\* kill-list entry, compared case-insensitively whatever the letter case of
\* the name and of the entry, is decided STOP with the bank-blocked reason.
C6_KillListCaseInsensitive ==
  (pc = "decideLoanV2" /\ NotStoppedBeforeKillList /\ OnKillListIgnoringCase) =>
    /\ result.outcome = "returned"
    /\ result.decision = "STOP"
    /\ result.decision_reason = "STOP: Banco Bloqueado"

\* C6, the part the code keeps: with kill-list entries in upper case, as the
\* defaults are, the bank name matches in any letter case.
C6_KillListUpperCaseEntries ==
  (/\ pc = "decideLoanV2"
   /\ NotStoppedBeforeKillList
   /\ OnKillListIgnoringCase
   /\ \A i \in 1..Len(config.killBanks) : config.killBanks[i] = toUpperCase(config.killBanks[i]))
  => /\ result.outcome = "returned"
     /\ result.decision = "STOP"
     /\ result.decision_reason = "STOP: Banco Bloqueado"

\* rules 1 to 8 leave the loan to the scheduling rules
NotCaughtByRules1To8 ==
  /\ NotStoppedBeforeKillList
  /\ ~isKillBank(toUpperCase(features.payment_method_bank), config)
  /\ OverdueRead <= config.zombieDaysThreshold
  /\ AttemptsRead < config.maxAttempts

\* C8: micro-debt comes before the fresh and the risk-bank/high-amount rules:
\* a loan with 1.0 < amount < microDebtThreshold that rules 1 to 8 leave is
\* decided RETRY with the micro-debt reason and the date now, also when it
\* is fresh or its bank is on the risk list.
C8_MicroDebtFirst ==
  (/\ pc = "decideLoanV2"
   /\ NotCaughtByRules1To8
   /\ Money(1) < AmountRead
   /\ AmountRead < config.microDebtThreshold)
  => /\ result.outcome = "returned"
     /\ result.decision = "RETRY"
     /\ result.decision_reason = "RETRY: Inmediato (Micro-Deuda)"
     /\ result.confidence = config.confidence.retryMicroDebt
     /\ result.next_attempt_date = toISOString(now)

\* C8 witness: a micro-debt that is also fresh and at a risk bank was decided
C8_Witness ==
  /\ pc = "decideLoanV2"
  /\ NotCaughtByRules1To8
  /\ Money(1) < AmountRead
  /\ AmountRead < config.microDebtThreshold
  /\ OverdueRead <= config.freshDaysThreshold
  /\ isRiskBank(toUpperCase(features.payment_method_bank), config)
  /\ result.decision_reason = "RETRY: Inmediato (Micro-Deuda)"

(***************************************************************************)
(* The semimonthly date helpers, each applied to a date                    *)
(***************************************************************************)

DateYears == {2024, 2025}

DateHours == {0, 9, 23}

\* every day of the years DateYears, at the hours DateHours
DateInputs ==
  {DateUTC(y, m, d, h) : y \in DateYears, m \in 0..11, d \in 1..31, h \in DateHours}

InitDates ==
  /\ pc = "call"
  /\ now \in DateInputs
  /\ config = DEFAULT_DECISION_CONFIG
  \* a loan of 2000 that is 3 or 400 days overdue, never attempted
  /\ features \in [loan_id                  : {"L1"},
                    payment_method_bank      : {bank_BBVA},
                    total_amount_outstanding : {Num(Money(2000))},
                    overdue_days             : {Num(3), Num(400)},
                    intentos_ciclo_actual    : {Num(0)},
                    last_req_status          : {s_failed},
                    failed_message           : {<< >>}]
  /\ loan = NoLoan
  /\ txRows = <<>>
  /\ result = [outcome |-> "none"]
  /\ request = [handler |-> "none"]
  /\ calls = << >>
  /\ history = << >>

\* nextQuincenaDate(from) of src/lib/smart-retry-core.js, an ISO string
Call_nextQuincenaDate ==
  /\ pc = "call"
  /\ pc' = "nextQuincenaDate"
  /\ result' = [outcome |-> "returned", date |-> nextQuincenaDate(now)]
  /\ UNCHANGED <<features, config, now, loan, txRows, request, calls, history>>

\* nextQuincenaDate(now) of src/unnamed/part_002, a Date
Call_nextQuincenaDate_p002 ==
  /\ pc = "call"
  /\ pc' = "nextQuincenaDate_p002"
  /\ result' = [outcome |-> "returned", date |-> nextQuincenaDate_p002(now)]
  /\ UNCHANGED <<features, config, now, loan, txRows, request, calls, history>>

\* nextQuincenaUtc(today) of src/unnamed/part_003, a Date
Call_nextQuincenaUtc ==
  /\ pc = "call"
  /\ pc' = "nextQuincenaUtc"
  /\ result' = [outcome |-> "returned", date |-> nextQuincenaUtc(now)]
  /\ UNCHANGED <<features, config, now, loan, txRows, request, calls, history>>

NextDates ==
  \/ Call_nextQuincenaDate
  \/ Call_nextQuincenaDate_p002
  \/ Call_nextQuincenaUtc
  \/ Call_decideLoanV2
  \/ Call_applyRulesForLoan
  \/ Call_decideLoanV2_p004

SpecDates == InitDates /\ [][NextDates]_vars

\* a semimonthly helper has returned
QuincenaDone == pc \in {"nextQuincenaDate", "nextQuincenaDate_p002", "nextQuincenaUtc"}

\* the calendar day the helper returned, as year, month (1 to 12) and day
QuincenaDay ==
  LET iso == IF pc = "nextQuincenaDate" THEN result.date ELSE toISOString(result.date)
  IN  <<iso.year, iso.month, iso.day>>

FromYear == getUTCFullYear(now)

FromMonth == getUTCMonth(now)

FromDay == getUTCDate(now)

\* the 30th, or the month's last day when the month is shorter
ClampedThirtieth ==
  IF DaysInMonth(FromYear, FromMonth) < 30 THEN DaysInMonth(FromYear, FromMonth) ELSE 30

\* C9: for a day of the month up to 15 the helper returns the 15th of the
\* month of from; for a day from 16 to 30 it returns the 30th of that month,
\* clamped to the month's last day in February; never a day of another month.
C9_FifteenthOrClampedThirtieth ==
  (QuincenaDone /\ FromDay <= 30) =>
    QuincenaDay = <<FromYear, FromMonth + 1, IF FromDay <= 15 THEN 15 ELSE ClampedThirtieth>>

\* C9, the part every helper keeps: months of at least 30 days
C9_MonthsOfThirtyDays ==
  (QuincenaDone /\ FromDay <= 30 /\ DaysInMonth(FromYear, FromMonth) >= 30) =>
    QuincenaDay = <<FromYear, FromMonth + 1, IF FromDay <= 15 THEN 15 ELSE 30>>

\* C10: from the 31st the helper returns the 15th of the next month, of
\* January of the following year from 31 December; never the 30th of the
\* month of from.
C10_ThirtyFirstRollsOver ==
  (QuincenaDone /\ FromDay = 31) =>
    QuincenaDay = IF FromMonth = 11 THEN <<FromYear + 1, 1, 15>>
                                    ELSE <<FromYear, FromMonth + 2, 15>>

\* C10, as src/lib/smart-retry-core.js alone behaves
C10_ThirtyFirstRollsOverLib ==
  (pc = "nextQuincenaDate" /\ FromDay = 31) =>
    QuincenaDay = IF FromMonth = 11 THEN <<FromYear + 1, 1, 15>>
                                    ELSE <<FromYear, FromMonth + 2, 15>>

(***************************************************************************)
(* Transaction history: rows of get_payment_history_by_loans.  A row has   *)
(* loan_id, status, failed_message, failed_reason (strings), created_at    *)
(* (a valid time value) and chargeback_at (a time value, 0 for null).      *)
(***************************************************************************)

\* "L2"
l_L2 == <<76,50>>
\* " L2 "
l_L2_padded == <<32,76,50,32>>
\* rows.sort((a, b) => a.created_at - b.created_at): the array sort is
\* stable, a row goes after the rows that are not later than it
RECURSIVE InsertAscending(_, _)
InsertAscending(row, sorted) ==
  IF sorted = << >> THEN <<row>>
  ELSE IF sorted[Len(sorted)].created_at <= row.created_at THEN Append(sorted, row)
  ELSE Append(InsertAscending(row, SubSeq(sorted, 1, Len(sorted) - 1)), sorted[Len(sorted)])

\* the sort left out: the rows are taken in input order
SortAscending_inputOrder(rows) == rows

RECURSIVE SortAscending(_)
SortAscending(rows) ==
  IF rows = << >> THEN << >>
  ELSE InsertAscending(rows[Len(rows)], SortAscending(SubSeq(rows, 1, Len(rows) - 1)))

\* one iteration of the loop of buildHistoryFeaturesForLoan over state st
historyStep(st, tx) ==
  LET status  == toLowerCase(tx.status)
      failMsg == trim(tx.failed_message)
  IN  [lastStatus |-> IF tx.chargeback_at # 0 THEN s_chargeback ELSE status,
       lastFailedMessage |->
         IF status = s_successful THEN << >>
         ELSE IF failMsg # << >> THEN failMsg ELSE st.lastFailedMessage,
       attemptsSinceLastSuccess |->
         IF status = s_successful THEN 0 ELSE st.attemptsSinceLastSuccess + 1]

RECURSIVE historyLoop(_)
historyLoop(ordered) ==
  IF ordered = << >>
    THEN [lastStatus |-> s_new, lastFailedMessage |-> << >>, attemptsSinceLastSuccess |-> 0]
    ELSE historyStep(historyLoop(SubSeq(ordered, 1, Len(ordered) - 1)), ordered[Len(ordered)])

\* buildHistoryFeaturesForLoan(rows) of src/unnamed/part_005
buildHistoryFeaturesForLoan(rows) ==
  IF rows = << >>
    THEN [last_req_status |-> s_new, failed_message |-> << >>, intentos_ciclo_actual |-> 0]
    ELSE LET st == historyLoop(SortAscending(rows))
         IN  [last_req_status       |-> st.lastStatus,
              failed_message        |-> st.lastFailedMessage,
              intentos_ciclo_actual |-> st.attemptsSinceLastSuccess]

(***************************************************************************)
(* The handler of src/unnamed/part_005, for a request of one loan          *)
(***************************************************************************)

\* no "config" in the body
NoBodyConfig == [k \in {} |-> 0]

\* { ...DEFAULT_DECISION_CONFIG, ...bodyConfig, confidence: { ...defaults, ...bodyConfig.confidence } }
decisionConfigOf(bodyConfig) ==
  LET given == IF "confidence" \in DOMAIN bodyConfig THEN bodyConfig.confidence ELSE NoBodyConfig
      confidence == [k \in DOMAIN DEFAULT_CONFIDENCE \cup DOMAIN given |->
                       IF k \in DOMAIN given THEN given[k] ELSE DEFAULT_CONFIDENCE[k]]
  IN  [k \in DOMAIN DEFAULT_DECISION_CONFIG \cup DOMAIN bodyConfig |->
         IF k = "confidence" THEN confidence
         ELSE IF k \in DOMAIN bodyConfig THEN bodyConfig[k]
         ELSE DEFAULT_DECISION_CONFIG[k]]

\* loan.loan_id != null ? String(loan.loan_id).trim() : ''
loanIdOf(ln) == trim(ln.loan_id)

\* the rows the handler groups under the loan's id
historyRowsOf(ln, rows) ==
  LET mine(row) == trim(row.loan_id) # << >> /\ trim(row.loan_id) = loanIdOf(ln)
  IN  SelectSeq(rows, mine)

\* variant: an absent amount counts as a large balance
amountRawOf_absentIsLarge(ln) ==
  Nullish(Nullish(ln.total_amount_outstanding, ln.totalAmountOutstanding), Num(Money(2000)))

\* loan.total_amount_outstanding ?? loan.totalAmountOutstanding ?? 0
amountRawOf(ln) ==
  Nullish(Nullish(ln.total_amount_outstanding, ln.totalAmountOutstanding), Num(0))

\* loan.overdue_days ?? loan.overdueDays ?? 0
overdueRawOf(ln) == Nullish(Nullish(ln.overdue_days, ln.overdueDays), Num(0))

\* Number.isFinite(Number(raw)) ? Number(raw) : 0
finiteNumberOrZero(raw) == IF Number(raw).t = "number" THEN Number(raw) ELSE Num(0)

\* the features object the handler builds for a loan
featuresOf(ln, rows) ==
  LET historyFeatures == buildHistoryFeaturesForLoan(historyRowsOf(ln, rows))
  IN  [loan_id                  |-> loanIdOf(ln),
       payment_method_bank      |-> OrString(ln.payment_method_bank, ln.paymentMethodBank),
       total_amount_outstanding |-> finiteNumberOrZero(amountRawOf(ln)),
       overdue_days             |-> finiteNumberOrZero(overdueRawOf(ln)),
       overdue_at               |-> ln.overdue_at,
       intentos_ciclo_actual    |-> Num(historyFeatures.intentos_ciclo_actual),
       last_req_status          |-> historyFeatures.last_req_status,
       failed_message           |-> historyFeatures.failed_message]

\* res.status(code).json({ error, message })
errorResponse(code, error) ==
  [outcome |-> "response", status |-> code, error |-> error, decisions |-> << >>]

\* the handler on a request with the method, the loans array and a body
\* config, the history query returning rows or failing; an exception of a
\* decideLoanV2 call ends the whole request in the catch block
handler_p005(method, loans, bodyConfig, rows, txError, nowT) ==
  IF method # "POST" THEN errorResponse(405, "method_not_allowed")
  ELSE IF loans = << >> THEN errorResponse(400, "invalid_payload")
  ELSE IF \A i \in 1..Len(loans) : loanIdOf(loans[i]) = << >>
    THEN errorResponse(400, "invalid_loans")
  ELSE IF txError THEN errorResponse(500, "failed_to_fetch_history")
  ELSE
    LET f(i)        == featuresOf(loans[i], rows)
        decision(i) == decideLoanV2(f(i), nowT, decisionConfigOf(bodyConfig))
    IN  IF \E i \in 1..Len(loans) : decision(i).outcome = "thrown"
          THEN errorResponse(500, "internal_error")
        ELSE [outcome   |-> "response",
              status    |-> 200,
              error     |-> "",
              decisions |-> [i \in 1..Len(loans) |->
                               [loan_id           |-> loanIdOf(loans[i]),
                                decision          |-> decision(i).decision,
                                decision_reason   |-> decision(i).decision_reason,
                                next_attempt_date |-> decision(i).next_attempt_date,
                                confidence        |-> decision(i).confidence,
                                features          |-> f(i)]]]

(***************************************************************************)
(* The scoring engine of src/unnamed/part_001.  Real numbers are kept as   *)
(* a pair of bounds in units of 1/10000; a comparison the bounds do not    *)
(* settle may come out either way.                                         *)
(***************************************************************************)

\* "charge"
kw_charge == <<99,104,97,114,103,101>>

\* normalizeReason(r)
normalizeReason(r) ==
  LET s == toLowerCase(r)
      has(k) == includes(s, k)
  IN  \* 'insuf', 'fund'
      IF has(<<105,110,115,117,102>>) \/ has(<<102,117,110,100>>) THEN "insufficient_funds"
      \* 'network', 'timeout', 'gateway'
      ELSE IF has(<<110,101,116,119,111,114,107>>) \/ has(<<116,105,109,101,111,117,116>>)
              \/ has(<<103,97,116,101,119,97,121>>) THEN "network_error"
      \* 'closed', 'cancel'
      ELSE IF has(<<99,108,111,115,101,100>>) \/ has(<<99,97,110,99,101,108>>) THEN "account_closed"
      \* 'blocked'
      ELSE IF has(<<98,108,111,99,107,101,100>>) THEN "blocked"
      \* 'expire'
      ELSE IF has(<<101,120,112,105,114,101>>) THEN "expired"
      \* 'fraud'
      ELSE IF has(<<102,114,97,117,100>>) THEN "fraud"
      ELSE IF has(kw_charge) THEN "chargeback"
      ELSE "unknown"

\* defaultReasonWeights, in 1/10000
defaultReasonWeights ==
  [insufficient_funds |-> 6000,
   network_error      |-> 1000,
   account_closed     |-> -10000,
   blocked            |-> -8000,
   expired            |-> -5000,
   chargeback         |-> -10000,
   unknown            |-> 0]

\* defaultConfig of the scoring engine (weights and threshold in 1/10000)
defaultConfig ==
  [maxAttempts            |-> 12,
   zombieThresholdDays    |-> 365,
   minDaysBetweenAttempts |-> 1,
   reasonWeights          |-> defaultReasonWeights,
   daysWeight             |-> 2500,
   amountWeight           |-> 2000,
   attemptsWeight         |-> -3000,
   threshold              |-> 4500,
   banksKilllist          |-> <<bank_Monterrey_Regional>>]

\* addDays(d, days), for a whole number of days
addDays(d, days) == d + 24 * days

\* next15or30(fromDate)
next15or30(fromDate) ==
  LET y == getUTCFullYear(fromDate)
      m == getUTCMonth(fromDate)
      d == getUTCDate(fromDate)
      candidate15 == DateUTC(y, m, 15, 0)
      candidate30 == DateUTC(y, m, 30, 0)
  IN  IF d < 15 /\ candidate15 > fromDate THEN candidate15
      ELSE IF d < 30 /\ candidate30 > fromDate THEN candidate30
      ELSE DateUTC(y, m + 1, 15, 0)

\* Math.round of a number of hours counted in days
roundDays(hours) == (hours + 12) \div 24

\* floor(10000 * tanh(k / 4)) for k = 0 .. 12
TanhQuarterFloor == <<0, 2449, 4621, 6351, 7615, 8482, 9051, 9413, 9640, 9780, 9866, 9918, 9950>>

\* bounds of 10000 * Math.tanh(days / 30) for days = hours / 24 >= 0: tanh
\* is increasing, so the table values at the quarters around days / 30
tanhBounds(hours) ==
  LET lo == hours \div 180
      hi == (hours + 179) \div 180
  IN  [lo |-> IF lo >= 12 THEN 9950 ELSE TanhQuarterFloor[lo + 1],
       hi |-> IF hi >= 12 THEN 10000 ELSE TanhQuarterFloor[hi + 1] + 1]

\* the largest k with 2^k * unit <= x, for x >= unit
RECURSIVE floorLog2(_, _)
floorLog2(x, unit) == IF x < 2 * unit THEN 0 ELSE 1 + floorLog2(x, 2 * unit)

\* bounds of 10000 * Math.log1p(outstanding) for outstanding = cents / 100
\* >= 0: k ln 2 <= ln(1 + outstanding) < (k + 1) ln 2, 0.6931 < ln 2 < 0.6932
log1pBounds(cents) ==
  LET k == floorLog2(100 + cents, 100)
  IN  [lo |-> k * 6931, hi |-> (k + 1) * 6932]

\* the outcomes of prob >= threshold for raw within [lo, hi]: with the
\* default threshold 0.45, 1 / (1 + exp(-raw)) >= 0.45 exactly when
\* raw >= ln(0.45 / 0.55), which lies between -0.2007 and -0.2006
probAtLeastThreshold(raw) ==
  IF raw.lo >= -2006 THEN {TRUE}
  ELSE IF raw.hi <= -2007 THEN {FALSE}
  ELSE BOOLEAN

\* the rows of a loan, latest first: hist.sort((a, b) => b.ts - a.ts), stable
RECURSIVE InsertDescending(_, _)
InsertDescending(row, sorted) ==
  IF sorted = << >> THEN <<row>>
  ELSE IF sorted[Len(sorted)].created_at >= row.created_at THEN Append(sorted, row)
  ELSE Append(InsertDescending(row, SubSeq(sorted, 1, Len(sorted) - 1)), sorted[Len(sorted)])

RECURSIVE SortDescending(_)
SortDescending(rows) ==
  IF rows = << >> THEN << >>
  ELSE InsertDescending(rows[Len(rows)], SortDescending(SubSeq(rows, 1, Len(rows) - 1)))

\* txByLoan[loan.loan_id]: the rows whose loan_id is the loan's, untrimmed
txOfLoan(ln, txs) ==
  LET mine(t) == t.loan_id # << >> /\ t.loan_id = ln.loan_id
  IN  SelectSeq(txs, mine)

\* a stopped result of computeForLoan: no score, no date ("none" and -1
\* stand for a null last_reason and a null days_since_last_attempt)
killResult(ln, reason, attempts, lastReason, daysSinceLast) ==
  [outcome                 |-> "returned",
   loan_id                 |-> ln.loan_id,
   should_retry            |-> FALSE,
   decision_reason         |-> reason,
   proposed_charge_date    |-> NullDate,
   attempts                |-> attempts,
   last_reason             |-> lastReason,
   days_since_last_attempt |-> daysSinceLast,
   raw                     |-> [lo |-> 0, hi |-> 0]]

\* Object.assign({}, defaultConfig, cfg || {}): the caller's value for every key
\* it gives, the default for the others
scoringConfigOf(cfg) ==
  [k \in DOMAIN defaultConfig \cup DOMAIN cfg |->
     IF k \in DOMAIN cfg THEN cfg[k] ELSE defaultConfig[k]]

\* the date the band of days since the last attempt chooses
bandDate(ln, hist, daysValHours, nowT) ==
  LET baseDate == IF ln.overdue_at # 0 THEN ln.overdue_at
                  ELSE IF hist # << >> THEN hist[1].created_at ELSE nowT
  IN  IF daysValHours <= 4 * 24 THEN addDays(nowT, 1)
      ELSE IF daysValHours >= 5 * 24 /\ daysValHours <= 14 * 24 THEN next15or30(nowT)
      ELSE next15or30(baseDate)

\* variant: no minimum gap after the last attempt
proposedDate_noGap(ln, hist, daysValHours, nowT, cfg) ==
  LET first == bandDate(ln, hist, daysValHours, nowT)
  IN  IF first <= nowT THEN next15or30(addDays(nowT, 1)) ELSE first

\* variant: a date that is not after now is kept
proposedDate_keptWhenPast(ln, hist, daysValHours, nowT, cfg) ==
  LET first      == bandDate(ln, hist, daysValHours, nowT)
      minGap     == IF cfg.minDaysBetweenAttempts = 0 THEN 1 ELSE cfg.minDaysBetweenAttempts
      minAllowed == addDays(hist[1].created_at, minGap)
  IN  IF hist # << >> /\ first < minAllowed THEN minAllowed ELSE first

\* the date computeForLoan proposes on the scoring path: the band's date,
\* not before the last attempt plus config.minDaysBetweenAttempts || 1, and
\* replaced when it is not after now
proposedDate(ln, hist, daysValHours, nowT, cfg) ==
  LET first      == bandDate(ln, hist, daysValHours, nowT)
      minGap     == IF cfg.minDaysBetweenAttempts = 0 THEN 1 ELSE cfg.minDaysBetweenAttempts
      minAllowed == addDays(hist[1].created_at, minGap)
      gapped     == IF hist # << >> /\ first < minAllowed THEN minAllowed ELSE first
  IN  IF gapped <= nowT THEN next15or30(addDays(nowT, 1)) ELSE gapped

\* computeForLoan(loan) of decideRetries(loans, txs, cfg) under the merged
\* config cfg (a numeric option of 0 falls back, as config.x || default
\* does), the results it can produce; the loan names its bank in payment_method_bank and the
\* kill-switch reason is kept without the bank name appended
computeForLoan(ln, txs, nowT, cfg) ==
  LET orDefault(v, d) == IF v = 0 THEN d ELSE v
      maxAttempts == orDefault(cfg.maxAttempts, defaultConfig.maxAttempts)
      zombieThresholdDays ==
        orDefault(cfg.zombieThresholdDays, defaultConfig.zombieThresholdDays)
      hist       == SortDescending(txOfLoan(ln, txs))
      attempts   == Len(hist)
      hasLast    == hist # << >>
      lastReason == IF hasLast
                      THEN normalizeReason(OrString(hist[1].failed_reason,
                                             OrString(hist[1].status, hist[1].failed_message)))
                      ELSE "none"
      sinceLast  == IF hasLast THEN roundDays(nowT - hist[1].created_at) ELSE -1
      bank       == ln.payment_method_bank
      outstanding == FiniteOrZero(Number(Nullish(Nullish(ln.total_amount_outstanding,
                                                         ln.loan_amount), Num(0))))
      anyChargeback == \E i \in 1..Len(hist) : hist[i].chargeback_at # 0
      ageHours   == nowT - ln.created_at
      r          == IF hasLast THEN lastReason ELSE "unknown"
      reasonWeight == IF r \in DOMAIN cfg.reasonWeights THEN cfg.reasonWeights[r]
                      ELSE IF r \in DOMAIN defaultReasonWeights THEN defaultReasonWeights[r]
                      ELSE 0
      hasDays    == hasLast \/ ln.overdue_at # 0
      daysValHours == IF hasLast THEN nowT - hist[1].created_at
                      ELSE IF ln.overdue_at # 0 THEN nowT - ln.overdue_at
                      ELSE 999 * 24
      th         == tanhBounds(daysValHours)
      lg         == log1pBounds(outstanding)
      attemptsWeight == orDefault(cfg.attemptsWeight, defaultConfig.attemptsWeight)
      attemptsComp == ((maxAttempts - attempts) * (-attemptsWeight)) \div maxAttempts
      daysWeight == orDefault(cfg.daysWeight, defaultConfig.daysWeight)
      amountWeight == orDefault(cfg.amountWeight, defaultConfig.amountWeight)
      raw        == [lo |-> reasonWeight + (th.lo * daysWeight) \div 10000
                              + (lg.lo * amountWeight) \div 100000 + attemptsComp,
                     hi |-> reasonWeight + (th.hi * daysWeight) \div 10000 + 1
                              + (lg.hi * amountWeight) \div 100000 + 1
                              + attemptsComp + 1]
  IN  IF bank # << >> /\ \E i \in 1..Len(cfg.banksKilllist) :
                            cfg.banksKilllist[i] = bank
        THEN {killResult(ln, "killswitch_bank", attempts, lastReason, sinceLast)}
      ELSE IF anyChargeback
              \/ (hasLast /\ includes(toLowerCase(hist[1].failed_reason), kw_charge))
        THEN {killResult(ln, "killswitch_chargeback", attempts, lastReason, sinceLast)}
      ELSE IF attempts >= maxAttempts
        THEN {killResult(ln, "max_attempts_reached:" \o ToString(attempts), attempts,
                         lastReason, sinceLast)}
      ELSE IF ln.created_at # 0 /\ ageHours > zombieThresholdDays * 24 /\ attempts >= 3
        THEN {killResult(ln, "zombie_max_attempts", attempts, lastReason, sinceLast)}
      ELSE
        {[outcome                 |-> "returned",
          loan_id                 |-> ln.loan_id,
          should_retry            |-> shouldRetry,
          decision_reason         |-> IF shouldRetry THEN "score_above_threshold"
                                                     ELSE "below_threshold",
          proposed_charge_date    |-> toISOString(proposedDate(ln, hist, daysValHours, nowT, cfg)),
          attempts                |-> attempts,
          last_reason             |-> lastReason,
          days_since_last_attempt |-> IF hasDays THEN roundDays(daysValHours) ELSE -1,
          raw                     |-> raw]
         : shouldRetry \in probAtLeastThreshold(raw)}

(***************************************************************************)
(* SpecHistory: one loan and its transaction rows go through the handler   *)
(* of part_005 or through decideRetries of part_001                        *)
(***************************************************************************)

MaxTx == 3

\* a loan object: absent numbers are Undefined, absent strings empty,
\* absent dates 0
LoanWith(amount, amountCamel, loanAmount, overdue, overdueCamel, bank, bankCamel, overdueAt, createdAt) ==
  [loan_id                  |-> l_L2,
   payment_method_bank      |-> bank,
   paymentMethodBank        |-> bankCamel,
   total_amount_outstanding |-> amount,
   totalAmountOutstanding   |-> amountCamel,
   loan_amount              |-> loanAmount,
   overdue_days             |-> overdue,
   overdueDays              |-> overdueCamel,
   overdue_at               |-> overdueAt,
   created_at               |-> createdAt]

\* the decision moment: 20 February 2025, 09:00 UTC
HistoryNow == DateUTC(2025, 1, 20, 9)

LoanInputs ==
  { \* { loan_id: "L2", overdue_days: 400 }
    LoanWith(Undefined, Undefined, Undefined, Num(400), Undefined, << >>, << >>, 0, 0),
    \* a fresh loan of 2000
    LoanWith(Num(Money(2000)), Undefined, Undefined, Num(3), Undefined, bank_BBVA, << >>, 0, 0),
    \* an old loan of 2000 given in camel case, amount as a string
    LoanWith(Undefined, NumStr(Money(2000)), Undefined, Undefined, Num(400), << >>,
             bank_Banco_Azteca, DateUTC(2023, 11, 1, 0), DateUTC(2023, 5, 1, 0)),
    \* a loan of 2000 at a bank on the kill-lists
    LoanWith(Num(Money(2000)), Undefined, Undefined, Num(30), Undefined,
             bank_Monterrey_Regional, << >>, 0, 0),
    \* a loan of 6000 that is 30 days overdue, its amount null in snake
    \* case, overdue_at 10 February 2025
    LoanWith(Null, Num(Money(6000)), Num(Money(6000)), Num(30), Undefined, bank_BBVA, << >>,
             DateUTC(2025, 1, 10, 0), DateUTC(2024, 11, 1, 0)) }

TxRow(loanId, status, failedMessage, failedReason, createdAt, chargebackAt) ==
  [loan_id |-> loanId, status |-> status, failed_message |-> failedMessage,
   failed_reason |-> failedReason, created_at |-> createdAt, chargeback_at |-> chargebackAt]

\* the kinds of row created at t: failed for insufficient funds; failed and
\* charged back; successful
TxKindsAt(t) ==
  { TxRow(l_L2, s_failed, msg_insuficiencia, << >>, t, 0),
    TxRow(l_L2, s_failed, << >>, << >>, t, HistoryNow - 24),
    TxRow(l_L2, s_successful, << >>, << >>, t, 0) }

RECURSIVE SeqsUpTo(_, _)
SeqsUpTo(S, n) ==
  IF n = 0 THEN {<< >>}
  ELSE LET shorter == SeqsUpTo(S, n - 1)
       IN  shorter \cup {Append(q, x) : q \in {p \in shorter : Len(p) = n - 1}, x \in S}

\* the configs of a call: none, one that overrides two limits and a
\* confidence, and one that asks for three days between attempts
BodyConfigInputs ==
  {NoBodyConfig,
   [zombieMaxAttempts |-> 4, maxAttempts |-> 2, confidence |-> [stopSettled |-> 50]],
   [minDaysBetweenAttempts |-> 3]}

InitHistory ==
  /\ pc = "call"
  /\ loan \in LoanInputs
  \* rows created 1 and 20 days before the decision moment; a row of status
  \* Chargeback without a chargeback date; a row failed for a closed account,
  \* its loan_id padded with blanks
  /\ txRows \in SeqsUpTo(UNION {TxKindsAt(t) : t \in {HistoryNow - 1 * 24, HistoryNow - 20 * 24}}
                         \cup { TxRow(l_L2, s_Chargeback, << >>, << >>, HistoryNow - 20 * 24, 0),
                                TxRow(l_L2_padded, s_failed, msg_cuenta_cancelada,
                                      msg_account_closed, HistoryNow - 1 * 24, 0) },
                       MaxTx)
  /\ config \in BodyConfigInputs
  /\ now = HistoryNow
  /\ features = [loan_id |-> "L1"]
  /\ result = [outcome |-> "none"]
  /\ request = [handler |-> "none"]
  /\ calls = << >>
  /\ history = << >>

\* POST or GET /api/decide with the loan, the history query returning the
\* rows or failing
Call_handler_p005 ==
  /\ pc = "call"
  /\ \E method \in {"POST", "GET"}, txError \in BOOLEAN :
       result' = handler_p005(method, <<loan>>, config, txRows, txError, now)
  /\ pc' = "handler_p005"
  /\ UNCHANGED <<features, config, now, loan, txRows, request, calls, history>>

\* decideRetries([loan], txRows, { now, ...config }) of src/unnamed/part_001
Call_decideRetries_p001 ==
  /\ pc = "call"
  /\ result' \in computeForLoan(loan, txRows, now, scoringConfigOf(config))
  /\ pc' = "decideRetries_p001"
  /\ UNCHANGED <<features, config, now, loan, txRows, request, calls, history>>

NextHistory ==
  \/ Call_handler_p005
  \/ Call_decideRetries_p001

SpecHistory == InitHistory /\ [][NextHistory]_vars

(***************************************************************************)
(* Claims about the history, the handler and the scoring engine            *)
(***************************************************************************)

\* the handler answered 200 with the loan's decision
HandlerDecided == pc = "handler_p005" /\ result.status = 200

HandlerDecision == result.decisions[1]

\* the rows of the loan, earliest first, as the handler orders them
OrderedHistory == SortAscending(historyRowsOf(loan, txRows))

MostRecentIsChargeback ==
  /\ OrderedHistory # << >>
  /\ toLowerCase(OrderedHistory[Len(OrderedHistory)].status) = s_chargeback

AnyChargebackDate ==
  \E i \in 1..Len(OrderedHistory) : OrderedHistory[i].chargeback_at # 0

\* the rows of the loan, latest first, as the scoring engine orders them
LatestFirstHistory == SortDescending(txOfLoan(loan, txRows))

LatestIsChargeback ==
  /\ LatestFirstHistory # << >>
  /\ toLowerCase(LatestFirstHistory[1].status) = s_chargeback

AnyChargebackDateOfLoan ==
  \E i \in 1..Len(LatestFirstHistory) : LatestFirstHistory[i].chargeback_at # 0

\* C3: a loan whose most recent transaction has status chargeback, or any
\* of whose transactions carries a chargeback date, is decided STOP from its
\* summarized history (should_retry false in the scoring engine).
C3_ChargebackAlwaysStops ==
  /\ (HandlerDecided /\ (MostRecentIsChargeback \/ AnyChargebackDate))
       => HandlerDecision.decision = "STOP"
  /\ (pc = "decideRetries_p001" /\ (LatestIsChargeback \/ AnyChargebackDateOfLoan))
       => ~result.should_retry

\* C3, the part the handler keeps: the most recent transaction is the
\* charged-back one
C3_MostRecentChargebackStops ==
  (/\ HandlerDecided
   /\ OrderedHistory # << >>
   /\ \/ toLowerCase(OrderedHistory[Len(OrderedHistory)].status) = s_chargeback
      \/ OrderedHistory[Len(OrderedHistory)].chargeback_at # 0)
  => HandlerDecision.decision = "STOP"

\* C5: next_attempt_date is present exactly when the decision is not STOP,
\* and in the scoring engine proposed_charge_date is present exactly when
\* should_retry is true.
C5_DateIffNotStop ==
  /\ HandlerDecided
       => (HandlerDecision.next_attempt_date # NullDate <=> HandlerDecision.decision # "STOP")
  /\ pc = "decideRetries_p001"
       => (result.proposed_charge_date # NullDate <=> result.should_retry)

\* C5, the part the rule cascades keep
C5_RuleCascadeDateIffNotStop ==
  /\ HandlerDecided
       => (HandlerDecision.next_attempt_date # NullDate <=> HandlerDecision.decision # "STOP")
  /\ (RuleCallDone /\ result.outcome = "returned")
       => (DateOf(result) # NullDate <=> result.decision # "STOP")

\* the loan { loan_id: "L2", overdue_days: 400 } and nothing else
IsScenarioL2 ==
  loan = LoanWith(Undefined, Undefined, Undefined, Num(400), Undefined, << >>, << >>, 0, 0)

\* the loan has three transactions, all failed and none charged back
ThreeFailedTransactions ==
  /\ Len(OrderedHistory) = 3
  /\ \A i \in 1..3 : /\ toLowerCase(OrderedHistory[i].status) = s_failed
                     /\ OrderedHistory[i].chargeback_at = 0

\* C7 as the scenario states it: the loan { loan_id: "L2", overdue_days: 400 }
\* with three failed transactions is decided STOP with the age-limit reason.
C7_ScenarioAgeLimit ==
  (HandlerDecided /\ IsScenarioL2 /\ ThreeFailedTransactions) =>
    /\ HandlerDecision.decision = "STOP"
    /\ HandlerDecision.decision_reason = "STOP: Límite Antigüedad (>1 año)"

\* C7: the loan { loan_id: "L2", overdue_days: 400 } with three failed
\* transactions has no amount, which reads as 0, and is decided STOP with
\* the settled reason and no date; the age-limit reason is the decision of
\* a loan more than a year overdue with at least zombieMaxAttempts failed
\* attempts whose amount is above 1.0 and which no earlier rule stops.
C7_ScenarioSettled ==
  /\ (HandlerDecided /\ IsScenarioL2 /\ ThreeFailedTransactions) =>
       /\ HandlerDecision.decision = "STOP"
       /\ HandlerDecision.decision_reason = "STOP: Deuda Saldada (Saldo $0)"
       /\ HandlerDecision.next_attempt_date = NullDate
       /\ HandlerDecision.features.total_amount_outstanding = Num(0)
  /\ (/\ HandlerDecided
      /\ HandlerDecision.features.total_amount_outstanding.n > Money(1)
      /\ HandlerDecision.features.overdue_days.n > 365
      /\ HandlerDecision.features.intentos_ciclo_actual.n
           >= decisionConfigOf(config).zombieMaxAttempts
      /\ HandlerDecision.features.last_req_status # s_chargeback
      /\ HandlerDecision.features.failed_message \in {<< >>, msg_insuficiencia}
      /\ ~isKillBank(toUpperCase(HandlerDecision.features.payment_method_bank),
                     decisionConfigOf(config)))
     => /\ HandlerDecision.decision = "STOP"
        /\ HandlerDecision.decision_reason = "STOP: Límite Antigüedad (>1 año)"

\* C7 witness: the scenario loan with three failed transactions was decided
C7_Witness ==
  /\ HandlerDecided
  /\ IsScenarioL2
  /\ ThreeFailedTransactions
  /\ config = NoBodyConfig
  /\ HandlerDecision.features.intentos_ciclo_actual = Num(3)
  /\ HandlerDecision.decision_reason = "STOP: Deuda Saldada (Saldo $0)"

(***************************************************************************)
(* Claims about the minimum gap and the two modes                          *)
(***************************************************************************)

\* decideRetries went down the scoring path: it returned a proposed date
ScoringPathDone == pc = "decideRetries_p001" /\ result.proposed_charge_date # NullDate

\* the merged configuration of the scoring call
ScoringConfig == scoringConfigOf(config)

\* the last attempt plus minDaysBetweenAttempts, when a last attempt exists
GapFloor ==
  addDays(LatestFirstHistory[1].created_at, ScoringConfig.minDaysBetweenAttempts)

\* the date the band chose before the minimum gap was applied
BandChosen ==
  bandDate(loan, LatestFirstHistory,
           now - LatestFirstHistory[1].created_at, now)

\* C11 as stated: whenever a last attempt exists and the band-chosen date is
\* earlier than last_attempt + minDaysBetweenAttempts, the returned proposed
\* date is exactly last_attempt + minDaysBetweenAttempts.
C11_PushedToFloor ==
  (ScoringPathDone /\ LatestFirstHistory # << >> /\ BandChosen < GapFloor) =>
    result.proposed_charge_date = toISOString(GapFloor)

\* C11: whenever a last attempt exists and the band-chosen date is earlier
\* than last_attempt + minDaysBetweenAttempts, the returned proposed date is
\* exactly that floor if the floor is after now; if the floor is not after
\* now the returned date is next15or30 of the day after now.
C11_PushedToFloorAfterNow ==
  (ScoringPathDone /\ LatestFirstHistory # << >> /\ BandChosen < GapFloor) =>
    result.proposed_charge_date =
      IF GapFloor > now THEN toISOString(GapFloor)
      ELSE toISOString(next15or30(addDays(now, 1)))

\* C11 witness: three days asked, the last attempt one day before now, the
\* band chose the day after now and the result is the last attempt plus
\* three days
C11_Witness ==
  /\ ScoringPathDone
  /\ LatestFirstHistory # << >>
  /\ ScoringConfig.minDaysBetweenAttempts = 3
  /\ LatestFirstHistory[1].created_at = now - 24
  /\ BandChosen = addDays(now, 1)
  /\ result.proposed_charge_date = toISOString(now + 2 * 24)

\* the time value of an ISO date string
IsoTime(iso) == DateUTC(iso.year, iso.month - 1, iso.day, iso.hour)

\* what the scoring mode returns for the loan and rows the handler decided
ScoringResults == computeForLoan(loan, txRows, now, ScoringConfig)

RuleModeKillSwitch ==
  HandlerDecision.decision_reason \in {"STOP: Banco Bloqueado", "STOP: Riesgo Chargeback"}

ScoringModeKillSwitch ==
  \E r \in ScoringResults : r.decision_reason \in {"killswitch_bank", "killswitch_chargeback"}

\* C12: for the same loan and history the rule cascade stops the loan by its
\* bank kill-list or chargeback rule exactly when the scoring mode does, and
\* neither mode returns a date earlier than the last attempt plus
\* minDaysBetweenAttempts.
C12_ModesAgreeOnKillAndGap ==
  HandlerDecided =>
    /\ RuleModeKillSwitch <=> ScoringModeKillSwitch
    /\ (OrderedHistory # << >> /\ HandlerDecision.next_attempt_date # NullDate) =>
         IsoTime(HandlerDecision.next_attempt_date)
           >= addDays(OrderedHistory[Len(OrderedHistory)].created_at,
                      ScoringConfig.minDaysBetweenAttempts)
    /\ \A r \in ScoringResults :
         (LatestFirstHistory # << >> /\ r.proposed_charge_date # NullDate) =>
           IsoTime(r.proposed_charge_date) >= GapFloor

\* C12, the part the scoring mode keeps: its date is never before the floor
C12_ScoringKeepsGap ==
  (ScoringPathDone /\ LatestFirstHistory # << >>) =>
    IsoTime(result.proposed_charge_date) >= GapFloor

(***************************************************************************)
(* The history summarizer and decideRetries of src/unnamed/part_003, and   *)
(* buildHistoryFeaturesForLoan of src/api/decide.js                        *)
(***************************************************************************)

\* normalizeStatus(status)
normalizeStatus(status) == toLowerCase(trim(status))

\* the loop of summarizeHistoryByLoan over the sorted rows of one loan;
\* prevNull stands for prevStatus === null, 'none' is the default message
RECURSIVE summaryLoop(_)
summaryLoop(list) ==
  IF list = << >>
    THEN [prevNull |-> TRUE, prevStatus |-> << >>, intentosActuales |-> 0,
          lastStatus |-> s_new, lastFailedMessage |-> <<110,111,110,101>>]
    ELSE LET st         == summaryLoop(SubSeq(list, 1, Len(list) - 1))
             tx         == list[Len(list)]
             status     == normalizeStatus(tx.status)
             msg        == toLowerCase(OrString(tx.failed_message, tx.failed_reason))
             isNewCycle == st.prevNull \/ st.prevStatus = s_successful
         IN  [prevNull          |-> FALSE,
              prevStatus        |-> status,
              intentosActuales  |-> (IF isNewCycle THEN 0 ELSE st.intentosActuales) + 1,
              lastStatus        |-> IF status # << >> THEN status ELSE st.lastStatus,
              lastFailedMessage |-> IF msg # << >> THEN msg ELSE st.lastFailedMessage]

\* summarizeHistoryByLoan(txs): the summaries by trimmed loan_id
summarizeHistoryByLoan(txs) ==
  LET idOf(tx)  == trim(tx.loan_id)
      loanIds   == {idOf(txs[i]) : i \in 1..Len(txs)} \ {<< >>}
      byLoan(id) == LET mine(tx) == idOf(tx) = id IN SelectSeq(txs, mine)
  IN  [id \in loanIds |->
         LET st == summaryLoop(SortAscending(byLoan(id)))
         IN  [intentos_ciclo_actual |-> st.intentosActuales,
              last_req_status       |-> st.lastStatus,
              failed_message        |-> st.lastFailedMessage]]

\* decideRetries(loans, txs, { today }) of src/unnamed/part_003
decideRetries_p003(loans, txs, today) ==
  LET summaries == summarizeHistoryByLoan(txs)
  IN  [i \in 1..Len(loans) |->
         LET ln     == loans[i]
             loanId == trim(ln.loan_id)
             state  == IF loanId # << >> /\ loanId \in DOMAIN summaries
                         THEN summaries[loanId]
                         ELSE [intentos_ciclo_actual |-> 0,
                               last_req_status       |-> s_new,
                               failed_message        |-> <<110,111,110,101>>]
             ruleResult == applyRulesForLoan(
                             ln, [state EXCEPT !.intentos_ciclo_actual = Num(@)], today)
         IN  [loan_id |-> loanId] @@ ruleResult @@
             [features |->
                [payment_method_bank      |-> ln.payment_method_bank,
                 total_amount_outstanding |->
                   Number(Nullish(ln.total_amount_outstanding, OrVal(ln.loan_amount, Num(0)))),
                 overdue_days             |-> Number(OrVal(ln.overdue_days, Num(0))),
                 intentos_ciclo_actual    |-> state.intentos_ciclo_actual,
                 last_req_status          |-> state.last_req_status,
                 failed_message           |-> state.failed_message]]]

\* the loop of buildHistoryFeaturesForLoan of src/api/decide.js: the
\* message is kept as the row has it
RECURSIVE historyLoop_api(_)
historyLoop_api(ordered) ==
  IF ordered = << >>
    THEN [lastStatus |-> s_new, lastFailedMessage |-> << >>, attemptsSinceLastSuccess |-> 0]
    ELSE LET st     == historyLoop_api(SubSeq(ordered, 1, Len(ordered) - 1))
             tx     == ordered[Len(ordered)]
             status == toLowerCase(tx.status)
         IN  [lastStatus |-> IF tx.chargeback_at # 0 THEN s_chargeback ELSE status,
              lastFailedMessage |->
                IF status = s_successful THEN << >>
                ELSE IF tx.failed_message # << >> THEN tx.failed_message
                ELSE st.lastFailedMessage,
              attemptsSinceLastSuccess |->
                IF status = s_successful THEN 0 ELSE st.attemptsSinceLastSuccess + 1]

\* buildHistoryFeaturesForLoan(rows) of src/api/decide.js
buildHistoryFeaturesForLoan_api(rows) ==
  IF rows = << >>
    THEN [last_req_status |-> s_new, failed_message |-> << >>, intentos_ciclo_actual |-> 0]
    ELSE LET st == historyLoop_api(SortAscending(rows))
         IN  [last_req_status       |-> st.lastStatus,
              failed_message        |-> st.lastFailedMessage,
              intentos_ciclo_actual |-> st.attemptsSinceLastSuccess]

(***************************************************************************)
(* SpecSummary: the loans array of a request (kept in loan) and the        *)
(* transaction rows go through a history summarizer or through             *)
(* decideRetries of part_003                                               *)
(***************************************************************************)

\* a fresh loan L2 of 2000; a loan L3 of 2000 that is 400 days overdue; a
\* fresh loan L2 whose amount is not a number; a loan L2 of 2000 that is
\* 10 days overdue
SummaryLoanInputs ==
  { LoanWith(Num(Money(2000)), Undefined, Undefined, Num(3), Undefined, bank_BBVA, << >>, 0, 0),
    [LoanWith(Num(Money(2000)), Undefined, Undefined, Num(400), Undefined, << >>, << >>, 0, 0)
       \* "L3"
       EXCEPT !.loan_id = <<76,51>>],
    LoanWith(NaN, Undefined, Undefined, Num(3), Undefined, bank_BBVA, << >>, 0, 0),
    LoanWith(Num(Money(2000)), Undefined, Undefined, Num(10), Undefined, bank_BBVA, << >>, 0, 0) }

\* the rows of the store: for L2, 20 days ago a failure for insufficient
\* funds, a failure for a cancelled account (loan_id padded) and a success,
\* one day ago a success and a failure for insufficient funds; for L3 a
\* failure without a message one day ago
SummaryTxInputs ==
  { TxRow(l_L2, s_failed, msg_insuficiencia, << >>, HistoryNow - 20 * 24, 0),
    TxRow(l_L2_padded, s_failed, msg_cuenta_cancelada, msg_account_closed, HistoryNow - 20 * 24, 0),
    TxRow(l_L2, s_successful, << >>, << >>, HistoryNow - 20 * 24, 0),
    TxRow(l_L2, s_successful, << >>, << >>, HistoryNow - 24, 0),
    TxRow(l_L2, s_failed, msg_insuficiencia, << >>, HistoryNow - 24, 0),
    \* "L3"
    TxRow(<<76,51>>, s_failed, << >>, << >>, HistoryNow - 24, 0) }

\* the configs of a call: none, and one that sets the attempt limit and
\* one confidence to 0
SummaryConfigInputs ==
  {NoBodyConfig, [maxAttempts |-> 0, confidence |-> [stopAttemptsLimit |-> 0]]}

InitSummary ==
  /\ pc = "call"
  /\ loan \in SeqsUpTo(SummaryLoanInputs, 2) \ {<< >>}
  /\ txRows \in SeqsUpTo(SummaryTxInputs, MaxTx)
  /\ config \in SummaryConfigInputs
  /\ now = HistoryNow
  /\ features = [loan_id |-> "L1"]
  /\ result = [outcome |-> "none"]
  /\ request = [handler |-> "none"]
  /\ calls = << >>
  /\ history = << >>

\* buildHistoryFeaturesForLoan of part_005 on the rows of the first loan
Call_buildHistoryFeaturesForLoan ==
  /\ pc = "call"
  /\ result' = buildHistoryFeaturesForLoan(historyRowsOf(loan[1], txRows))
  /\ pc' = "buildHistoryFeaturesForLoan"
  /\ UNCHANGED <<features, config, now, loan, txRows, request, calls, history>>

\* buildHistoryFeaturesForLoan of src/api/decide.js on the same rows
Call_buildHistoryFeaturesForLoan_api ==
  /\ pc = "call"
  /\ result' = buildHistoryFeaturesForLoan_api(historyRowsOf(loan[1], txRows))
  /\ pc' = "buildHistoryFeaturesForLoan_api"
  /\ UNCHANGED <<features, config, now, loan, txRows, request, calls, history>>

\* decideRetries(loans, txRows, { today: now }) of src/unnamed/part_003
Call_decideRetries_p003 ==
  /\ pc = "call"
  /\ result' = [outcome |-> "returned", decisions |-> decideRetries_p003(loan, txRows, now)]
  /\ pc' = "decideRetries_p003"
  /\ UNCHANGED <<features, config, now, loan, txRows, request, calls, history>>

\* decideRetries(loans, txs, cfg) of src/unnamed/part_001: the results of
\* computeForLoan for every loan, in the order of the loans
RECURSIVE decideRetries_p001(_, _, _, _)
decideRetries_p001(loans, txs, nowT, cfg) ==
  IF loans = << >> THEN {<< >>}
  ELSE {Append(rs, r) :
          rs \in decideRetries_p001(SubSeq(loans, 1, Len(loans) - 1), txs, nowT, cfg),
          r \in computeForLoan(loans[Len(loans)], txs, nowT, scoringConfigOf(cfg))}

\* decideRetries(loans, txRows, { now, ...config }) of src/unnamed/part_001
Call_decideRetries_p001_loans ==
  /\ pc = "call"
  /\ \E rs \in decideRetries_p001(loan, txRows, now, config) :
       result' = [outcome |-> "returned", results |-> rs]
  /\ pc' = "decideRetries_p001"
  /\ UNCHANGED <<features, config, now, loan, txRows, request, calls, history>>

\* POST /api/decide of part_005 with the loans array and the config
Call_handler_p005_loans ==
  /\ pc = "call"
  /\ result' = handler_p005("POST", loan, config, txRows, FALSE, now)
  /\ pc' = "handler_p005"
  /\ UNCHANGED <<features, config, now, loan, txRows, request, calls, history>>

NextSummary ==
  \/ Call_buildHistoryFeaturesForLoan
  \/ Call_buildHistoryFeaturesForLoan_api
  \/ Call_decideRetries_p003
  \/ Call_decideRetries_p001_loans
  \/ Call_handler_p005_loans

SpecSummary == InitSummary /\ [][NextSummary]_vars

(***************************************************************************)
(* Claims about the history summarizers                                    *)
(***************************************************************************)

\* the rows of a loan, earliest first
OrderedRowsOf(ln) == SortAscending(historyRowsOf(ln, txRows))

\* the number of rows after the last successful row of an ordered history
RowsAfterLastSuccess(ordered) ==
  LET successes == {i \in 1..Len(ordered) : normalizeStatus(ordered[i].status) = s_successful}
  IN  Cardinality({i \in 1..Len(ordered) : \A j \in successes : j < i})

FeaturesBuilt == pc \in {"buildHistoryFeaturesForLoan", "buildHistoryFeaturesForLoan_api"}

\* C13: attempts_in_cycle of every summarizer is the number of rows that
\* come after the last successful row of the loan (all rows when there is
\* none), hence 0 when the last row is successful
C13_AttemptsAfterLastSuccess ==
  /\ FeaturesBuilt =>
       result.intentos_ciclo_actual = RowsAfterLastSuccess(OrderedRowsOf(loan[1]))
  /\ pc = "decideRetries_p003" =>
       \A i \in 1..Len(loan) :
         result.decisions[i].features.intentos_ciclo_actual
           = RowsAfterLastSuccess(OrderedRowsOf(loan[i]))

\* the two buildHistoryFeaturesForLoan count as C13 says
C13_BuildHistoryFeaturesCount ==
  FeaturesBuilt =>
    result.intentos_ciclo_actual = RowsAfterLastSuccess(OrderedRowsOf(loan[1]))

LastIsSuccessful(ln) ==
  LET ordered == OrderedRowsOf(ln)
  IN  ordered # << >> /\ normalizeStatus(ordered[Len(ordered)].status) = s_successful

\* the message of the latest row that has one, among the rows after the
\* last successful row; empty when there is none
LastMessageSinceSuccess(ordered) ==
  LET n       == Len(ordered)
      recent  == SubSeq(ordered, n - RowsAfterLastSuccess(ordered) + 1, n)
      hasMsg(tx) == trim(tx.failed_message) # << >>
      withMsg == SelectSeq(recent, hasMsg)
  IN  IF withMsg = << >> THEN << >> ELSE trim(withMsg[Len(withMsg)].failed_message)

\* C14: last_failed_message is the most recent non-empty failure message
\* since the last success, empty when the last row of the loan is
\* successful, and then no hard-decline STOP is decided from a message
\* that precedes the success
C14_MessageClearedOnSuccess ==
  /\ FeaturesBuilt =>
       result.failed_message = LastMessageSinceSuccess(OrderedRowsOf(loan[1]))
  /\ pc = "decideRetries_p003" =>
       \A i \in 1..Len(loan) :
         LastIsSuccessful(loan[i]) =>
           result.decisions[i].decision_reason # "STOP: Cuenta Inválida (Hard Decline)"

\* the two buildHistoryFeaturesForLoan keep the message as C14 says
C14_BuildHistoryFeaturesMessage ==
  FeaturesBuilt =>
    /\ result.failed_message = LastMessageSinceSuccess(OrderedRowsOf(loan[1]))
    /\ LastIsSuccessful(loan[1]) => result.failed_message = << >>

(***************************************************************************)
(* Claims about the message rules                                          *)
(***************************************************************************)

\* the message mentions insufficient funds: "insuficiencia de fondos"
MentionsInsufficientFunds ==
  includes(MessageRead, <<105,110,115,117,102,105,99,105,101,110,99,105,97,32,100,101,32,102,111,110,100,111,115>>)

\* C15: no rule cascade decides the hard-decline STOP for a message that
\* mentions insufficient funds, whatever else the message contains
C15_InsufficientFundsNeverHardDecline ==
  (RuleCallDone /\ MentionsInsufficientFunds) =>
    result.decision_reason # "STOP: Cuenta Inválida (Hard Decline)"

\* the cascade of part_004 keeps C15
C15_InsufficientFundsExcluded_p004 ==
  (pc = "decideLoanV2_p004" /\ MentionsInsufficientFunds) =>
    result.decision_reason # "STOP: Cuenta Inválida (Hard Decline)"

(***************************************************************************)
(* Claims about requests of several loans                                  *)
(***************************************************************************)

\* the loans array in the opposite order
ReversedLoans == [i \in 1..Len(loan) |-> loan[Len(loan) + 1 - i]]

\* the response of the handler to the request of the i-th loan alone
HandlerAlone(i) == handler_p005("POST", <<loan[i]>>, config, txRows, FALSE, now)

\* C16: every loan of a request gets the decision record it gets in the
\* request with the loans in the opposite order, and the one it gets when
\* it is the only loan of the request
C16_DecisionIndependentOfOtherLoans ==
  /\ pc = "decideRetries_p003" =>
       \A i \in 1..Len(loan) :
         /\ result.decisions[i] = decideRetries_p003(<<loan[i]>>, txRows, now)[1]
         /\ result.decisions[i]
              = decideRetries_p003(ReversedLoans, txRows, now)[Len(loan) + 1 - i]
  /\ pc = "handler_p005" =>
       \A i \in 1..Len(loan) :
         HandlerAlone(i).status = 200 =>
           /\ result.status = 200
           /\ result.decisions[i] = HandlerAlone(i).decisions[1]

\* C16, the permutation alone: the request with the loans in the opposite
\* order gets the same response, with the same record for every loan
C16_PermutedLoansSameDecisions ==
  /\ pc = "decideRetries_p003" =>
       \A i \in 1..Len(loan) :
         result.decisions[i]
           = decideRetries_p003(ReversedLoans, txRows, now)[Len(loan) + 1 - i]
  /\ pc = "handler_p005" =>
       LET reversed == handler_p005("POST", ReversedLoans, config, txRows, FALSE, now)
       IN  /\ reversed.status = result.status
           /\ reversed.error = result.error
           /\ result.status = 200 =>
                \A i \in 1..Len(loan) :
                  result.decisions[i] = reversed.decisions[Len(loan) + 1 - i]

(***************************************************************************)
(* Claims about malformed input and completion                             *)
(***************************************************************************)

Decisions == {"STOP", "RETRY", "SCHEDULE"}

\* C17: every call of a rule cascade on a loan with a loan_id returns a
\* decision, STOP, RETRY or SCHEDULE, and raises nothing
C17_AlwaysDecides ==
  RuleCallDone => (result.outcome = "returned" /\ result.decision \in Decisions)

\* the cascades of part_003 and part_004 always decide
C17_AlwaysDecides_p003_p004 ==
  pc \in {"applyRulesForLoan", "decideLoanV2_p004"} =>
    (result.outcome = "returned" /\ result.decision \in Decisions)

\* total_amount_outstanding of the loan is absent, null or not a number,
\* and the camel-case spelling is absent too
AmountAbsentOrInvalid(ln) ==
  /\ ln.total_amount_outstanding.t \in {"undefined", "null", "nan"}
  /\ ln.totalAmountOutstanding.t = "undefined"

\* C18: a loan whose total_amount_outstanding is absent or not a number is
\* decided as a loan of 0: STOP for a settled debt
C18_InvalidAmountIsSettled ==
  /\ pc = "decideRetries_p003" =>
       \A i \in 1..Len(loan) :
         AmountAbsentOrInvalid(loan[i]) =>
           result.decisions[i].decision_reason = "STOP: Deuda Saldada (Saldo $0)"
  /\ (pc = "handler_p005" /\ result.status = 200) =>
       \A i \in 1..Len(loan) :
         AmountAbsentOrInvalid(loan[i]) =>
           /\ result.decisions[i].features.total_amount_outstanding = Num(0)
           /\ result.decisions[i].decision_reason = "STOP: Deuda Saldada (Saldo $0)"

\* the handler of part_005 keeps C18
C18_HandlerAmountDefaultsToZero ==
  (pc = "handler_p005" /\ result.status = 200) =>
    \A i \in 1..Len(loan) :
      AmountAbsentOrInvalid(loan[i]) =>
        /\ result.decisions[i].features.total_amount_outstanding = Num(0)
        /\ result.decisions[i].decision_reason = "STOP: Deuda Saldada (Saldo $0)"

(***************************************************************************)
(* Claims about the configuration                                          *)
(***************************************************************************)

\* the caller has set the attempt limit to 0
AttemptLimitZero == "maxAttempts" \in DOMAIN config /\ config.maxAttempts = 0

\* C19: the rules use the caller's value of every option the caller gives,
\* the value 0 included, and the default of every other one: under an
\* attempt limit of 0 and a confidence of 0 for the attempt-limit stop,
\* every loan that the earlier rules do not decide is stopped for its
\* attempts, in the handler with confidence 0 and the default confidences
\* elsewhere
C19_CallerValuesOverrideIncludingZero ==
  /\ (pc = "handler_p005" /\ AttemptLimitZero) =>
       /\ result.status = 200
       /\ \A i \in 1..Len(loan) :
            LET d == result.decisions[i]
            IN  \/ d.decision_reason = "STOP: Máximo de Intentos (0)" /\ d.confidence = 0
                \/ d.decision_reason = "STOP: Deuda Saldada (Saldo $0)"
                     /\ d.confidence = DEFAULT_CONFIDENCE.stopSettled
                \/ d.decision_reason = "STOP: Cuenta Inválida (Hard Decline)"
                     /\ d.confidence = DEFAULT_CONFIDENCE.stopHardDecline
                \/ d.decision_reason = "SCHEDULE: Solo Quincena (Zombie)"
                     /\ d.confidence = DEFAULT_CONFIDENCE.scheduleZombie
                \/ d.decision_reason = "STOP: Límite Antigüedad (>1 año)"
                     /\ d.confidence = DEFAULT_CONFIDENCE.stopZombieLimit
  /\ (pc = "decideRetries_p001" /\ AttemptLimitZero) =>
       \A i \in 1..Len(loan) :
         LET r == result.results[i]
         IN  r.decision_reason \in
               {"killswitch_bank", "killswitch_chargeback",
                "max_attempts_reached:" \o ToString(r.attempts)}

\* the handler of part_005 keeps C19
C19_HandlerUsesCallerValues ==
  (pc = "handler_p005" /\ AttemptLimitZero) =>
    /\ result.status = 200
    /\ \A i \in 1..Len(loan) :
         LET d == result.decisions[i]
         IN  \/ d.decision_reason = "STOP: Máximo de Intentos (0)" /\ d.confidence = 0
             \/ d.decision_reason = "STOP: Deuda Saldada (Saldo $0)"
                  /\ d.confidence = DEFAULT_CONFIDENCE.stopSettled
             \/ d.decision_reason = "STOP: Cuenta Inválida (Hard Decline)"
                  /\ d.confidence = DEFAULT_CONFIDENCE.stopHardDecline
             \/ d.decision_reason = "SCHEDULE: Solo Quincena (Zombie)"
                  /\ d.confidence = DEFAULT_CONFIDENCE.scheduleZombie
             \/ d.decision_reason = "STOP: Límite Antigüedad (>1 año)"
                  /\ d.confidence = DEFAULT_CONFIDENCE.stopZombieLimit

(***************************************************************************)
(* SpecAuth: the HTTP handlers of src/unnamed/part_005, part_006 and       *)
(* src/api/decide.js (lines 234-300) serve one request, a step at a time:  *)
(* method, key, body, history, decision                                    *)
(***************************************************************************)

\* the requests: the handler, the method, the x-api-key header ("" when it
\* is missing) and the DECISION_API_KEY of the environment ("" when unset)
RequestInputs ==
  [handler          : {"part_005", "part_006", "api_decide"},
   method           : {"POST", "GET", "OPTIONS"},
   x_api_key        : {"", "k1", "k2"},
   DECISION_API_KEY : {"", "k1"}]

\* !(!API_KEY || provided !== API_KEY)
apiKeyAccepted(req) ==
  req.DECISION_API_KEY # "" /\ req.x_api_key = req.DECISION_API_KEY

\* [...new Set(loans.map(trimmed loan_id).filter(id => id !== ''))]: the
\* distinct non-empty loan ids of the request, in order of first appearance
loanIdsOf(loans) ==
  LET ids == [i \in 1..Len(loans) |-> [i |-> i, id |-> loanIdOf(loans[i])]]
      isNew(r) == r.id # << >> /\ \A k \in 1..(r.i - 1) : ids[k].id # r.id
      kept == SelectSeq(ids, isNew)
  IN  [k \in 1..Len(kept) |-> kept[k].id]

\* const chunkSize of getHistoryForLoans: the loan ids of one query; 500 in
\* the source, here so small that a request of three loans takes two queries
chunkSize == 2

\* the default of maxPerLoan, and the value the handler passes
maxPerLoan == 10

\* every row of the requested loans, latest first: no limit per loan
getHistoryForLoans_wholeHistory(loanIds, perLoan, table) ==
  LET wanted(row) == \E k \in 1..Len(loanIds) : row.loan_id = loanIds[k]
  IN  SortDescending(SelectSeq(table, wanted))

\* getHistoryForLoans(loanIds, maxPerLoan): the rows of the table chunk
\* after chunk of loan ids, each chunk latest first; of every loan the
\* first maxPerLoan rows; bucket by bucket in the order the buckets appear
getHistoryForLoans(loanIds, perLoan, table) ==
  LET nChunks  == (Len(loanIds) + chunkSize - 1) \div chunkSize
      chunk(c) == SubSeq(loanIds, (c - 1) * chunkSize + 1,
                         IF c * chunkSize < Len(loanIds) THEN c * chunkSize ELSE Len(loanIds))
      data(c)  == LET wanted(row) == \E k \in 1..Len(chunk(c)) : row.loan_id = chunk(c)[k]
                  IN  SortDescending(SelectSeq(table, wanted))
      pushed[c \in 0..nChunks] == IF c = 0 THEN << >> ELSE pushed[c - 1] \o data(c)
      allRows  == pushed[nChunks]
      n        == Len(allRows)
      inBucket == {i \in 1..n :
                     Cardinality({j \in 1..(i - 1) : allRows[j].loan_id = allRows[i].loan_id})
                       < perLoan}
      first(i) == CHOOSE j \in 1..i :
                    /\ allRows[j].loan_id = allRows[i].loan_id
                    /\ \A k \in 1..(j - 1) : allRows[k].loan_id # allRows[i].loan_id
      place(i) == 1 + Cardinality({j \in inBucket :
                                     first(j) < first(i) \/ (first(j) = first(i) /\ j < i)})
  IN  [p \in 1..Cardinality(inBucket) |-> allRows[CHOOSE i \in inBucket : place(i) = p]]

InitAuth ==
  /\ pc = "received"
  /\ request \in RequestInputs
  \* up to two loans, among them one whose loan_id is a blank
  /\ loan \in SeqsUpTo(SummaryLoanInputs \cup
                         {[LoanWith(Num(Money(2000)), Undefined, Undefined, Num(3), Undefined,
                                    bank_BBVA, << >>, 0, 0) EXCEPT !.loan_id = <<32>>]}, 2)
  /\ txRows \in SeqsUpTo(SummaryTxInputs, 1)
  /\ config = NoBodyConfig
  /\ now = HistoryNow
  /\ features = [loan_id |-> "L1"]
  /\ result = [outcome |-> "none"]
  /\ calls = << >>
  /\ history = << >>

\* the handler answers and is done
Respond(response) ==
  /\ result' = response
  /\ pc' = "responded"

\* the method check that opens every handler; src/api/decide.js answers an
\* OPTIONS request first
Handler_checkMethod ==
  /\ pc = "received"
  /\ IF request.handler = "api_decide" /\ request.method = "OPTIONS"
       THEN Respond([outcome |-> "response", status |-> 204, error |-> "", decisions |-> << >>])
     ELSE IF request.method # "POST"
       THEN Respond(errorResponse(405, "Method not allowed"))
     ELSE /\ pc' = IF request.handler = "part_005" THEN "body" ELSE "authorize"
          /\ UNCHANGED result
  /\ UNCHANGED <<features, config, now, loan, txRows, request, calls, history>>

\* the x-api-key check of part_006 and src/api/decide.js
Handler_authorize ==
  /\ pc = "authorize"
  /\ IF apiKeyAccepted(request)
       THEN pc' = "body" /\ UNCHANGED result
       ELSE Respond(errorResponse(401, "Unauthorized"))
  /\ UNCHANGED <<features, config, now, loan, txRows, request, calls, history>>

\* the handler reads body.loans (and, in part_006, body.txs) and validates
Handler_readBody ==
  /\ pc = "body"
  /\ CASE request.handler = "part_005" ->
            IF loan = << >> THEN Respond(errorResponse(400, "invalid_payload"))
            ELSE IF loanIdsOf(loan) = << >> THEN Respond(errorResponse(400, "invalid_loans"))
            ELSE pc' = "fetch" /\ UNCHANGED result
       [] request.handler = "part_006" ->
            IF \/ \E i \in 1..Len(loan) : loanIdOf(loan[i]) = << >>
               \/ \E i \in 1..Len(txRows) : trim(txRows[i].loan_id) = << >>
              THEN Respond(errorResponse(400, "Invalid request: each record must have loan_id"))
              ELSE pc' = "decide" /\ UNCHANGED result
       [] OTHER -> pc' = "fetch" /\ UNCHANGED result
  /\ UNCHANGED <<features, config, now, loan, txRows, request, calls, history>>

\* the handler asks the transaction store for the history of the loans;
\* the query may fail
Handler_fetchHistory ==
  /\ pc = "fetch"
  /\ IF request.handler = "api_decide" /\ loanIdsOf(loan) = << >>
       THEN /\ history' = << >>
            /\ pc' = "decide"
            /\ UNCHANGED <<result, calls>>
       ELSE /\ calls' = Append(calls, "store")
            /\ \E failed \in BOOLEAN :
                 IF failed
                   THEN /\ Respond(errorResponse(500,
                             IF request.handler = "part_005" THEN "failed_to_fetch_history"
                                                             ELSE "internal_error"))
                        /\ UNCHANGED history
                   ELSE /\ history' = IF request.handler = "part_005" THEN txRows
                                      ELSE getHistoryForLoans(loanIdsOf(loan), maxPerLoan, txRows)
                        /\ pc' = "decide"
                        /\ UNCHANGED result
  /\ UNCHANGED <<features, config, now, loan, txRows, request>>

\* the handler runs the decision engine and answers: part_005 decideLoanV2
\* on every loan, the others the decideRetries that smart-retry-core
\* exports (part_003), part_006 on body.txs, src/api/decide.js on the
\* history it fetched
Handler_decide ==
  /\ pc = "decide"
  /\ calls' = Append(calls, "engine")
  /\ Respond(IF request.handler = "part_005"
               THEN handler_p005("POST", loan, config, history, FALSE, now)
               ELSE [outcome   |-> "response",
                     status    |-> 200,
                     error     |-> "",
                     decisions |-> decideRetries_p003(loan,
                                     IF request.handler = "part_006" THEN txRows ELSE history,
                                     now)])
  /\ UNCHANGED <<features, config, now, loan, txRows, request, history>>

NextAuth ==
  \/ Handler_checkMethod
  \/ Handler_authorize
  \/ Handler_readBody
  \/ Handler_fetchHistory
  \/ Handler_decide

SpecAuth == InitAuth /\ [][NextAuth]_vars

(***************************************************************************)
(* Claims about authentication                                             *)
(***************************************************************************)

\* the request carries the configured key
Authenticated ==
  request.DECISION_API_KEY # "" /\ request.x_api_key = request.DECISION_API_KEY

Answered(code) == pc = "responded" /\ result.status = code

\* a POST that does not carry the configured key
UnauthenticatedPost == request.method = "POST" /\ ~Authenticated

\* C20: while a handler serves a POST without the configured key (or with
\* no key configured) it invokes neither the transaction store nor the
\* decision engine, its answer is 401, and only an authenticated request
\* is answered 200
C20_UnauthenticatedPostAnswered401 ==
  /\ UnauthenticatedPost => (calls = << >> /\ (pc = "responded" => result.status = 401))
  /\ Answered(200) => Authenticated

\* the handlers that check the key
KeyChecked == request.handler \in {"part_006", "api_decide"}

\* the handlers of part_006 and src/api/decide.js keep C20
C20_KeyCheckedHandlersAnswer401 ==
  KeyChecked =>
    /\ UnauthenticatedPost => (calls = << >> /\ (pc = "responded" => result.status = 401))
    /\ Answered(200) => Authenticated

(***************************************************************************)
(* Claims about loans without an identifier                                *)
(***************************************************************************)

\* the request holds a loan whose loan_id is empty after trimming
HasLoanWithoutId == \E i \in 1..Len(loan) : loanIdOf(loan[i]) = << >>

\* C21: a loan without an identifier never appears in the output: every
\* decision of a 200 answer has a non-empty loan_id
C21_NoDecisionWithoutLoanId ==
  Answered(200) =>
    \A i \in 1..Len(result.decisions) : result.decisions[i].loan_id # << >>

\* C21, the handler of part_006: a request holding a loan without an
\* identifier is answered 400 and the engine is never called
C21_Part006RejectsLoanWithoutId ==
  (request.handler = "part_006" /\ HasLoanWithoutId) =>
    /\ "engine" \notin {calls[i] : i \in 1..Len(calls)}
    /\ (pc = "responded" => result.status \in {400, 401, 405})

(***************************************************************************)
(* Claims about the attempt counter after a success                        *)
(***************************************************************************)

\* the call ended in one of the two attempt-limit rules
StoppedByAttemptLimit ==
  /\ result.outcome = "returned"
  /\ \/ result.decision_reason = "STOP: Límite Antigüedad (>1 año)"
     \/ result.decision_reason =
          "STOP: Máximo de Intentos (" \o
            ToString(IF pc = "decideLoanV2" THEN config.maxAttempts ELSE 12) \o ")"

\* C22: when the last status is "successful" the cascade reads the attempt
\* counter as 0 for limit checking: neither the max-attempts STOP nor the
\* zombie attempt-cap STOP is produced, whatever the counter holds (limits
\* above 0)
C22_SuccessReadsCounterAsZero ==
  (/\ RuleCallDone
   /\ StatusRead = s_successful
   /\ config.maxAttempts > 0
   /\ config.zombieMaxAttempts > 0)
  => ~StoppedByAttemptLimit

\* C22, the cascade of part_004 alone: after a success no attempt-limit
\* STOP, whatever the counter holds
C22_SuccessReadsCounterAsZero_p004 ==
  (pc = "decideLoanV2_p004" /\ StatusRead = s_successful) => ~StoppedByAttemptLimit

(***************************************************************************)
(* SpecOrder: the summarizers on rows of three different days, given in    *)
(* every order                                                             *)
(***************************************************************************)

InitOrder ==
  /\ pc = "call"
  \* a fresh loan L2 of 2000
  /\ loan = <<LoanWith(Num(Money(2000)), Undefined, Undefined, Num(3), Undefined,
                       bank_BBVA, << >>, 0, 0)>>
  \* rows created 1, 10 and 20 days before the decision moment: a failure for
  \* insufficient funds, a success, a failure for a cancelled account
  /\ txRows \in SeqsUpTo({TxRow(l_L2, st[1], st[2], << >>, HistoryNow - d * 24, 0) :
                            st \in {<<s_failed, msg_insuficiencia>>,
                                    <<s_successful, << >> >>,
                                    <<s_failed, msg_cuenta_cancelada>>},
                            d \in {1, 10, 20}}, MaxTx)
  /\ config = NoBodyConfig
  /\ now = HistoryNow
  /\ features = [loan_id |-> "L1"]
  /\ result = [outcome |-> "none"]
  /\ request = [handler |-> "none"]
  /\ calls = << >>
  /\ history = << >>

NextOrder ==
  \/ Call_buildHistoryFeaturesForLoan
  \/ Call_decideRetries_p003

SpecOrder == InitOrder /\ [][NextOrder]_vars

(***************************************************************************)
(* Claims about the order of the transactions                              *)
(***************************************************************************)

\* the lists that hold the rows of a list in another order
Reorderings(rows) ==
  LET n == Len(rows)
  IN  {[i \in 1..n |-> rows[p[i]]] :
         p \in {f \in [1..n -> 1..n] : \A i, j \in 1..n : f[i] = f[j] => i = j}}

\* no two rows of the list were created at the same time
DistinctTimes(rows) ==
  \A i, j \in 1..Len(rows) : rows[i].created_at = rows[j].created_at => i = j

\* the rows by ascending created_at, rows of the same time in input order
ChronologicalStable(rows) ==
  LET n == Len(rows)
      place(i) == 1 + Cardinality({j \in 1..n :
                        \/ rows[j].created_at < rows[i].created_at
                        \/ rows[j].created_at = rows[i].created_at /\ j < i})
  IN  [p \in 1..n |-> rows[CHOOSE i \in 1..n : place(i) = p]]

\* the rows of the store that belong to the same loan as row tx
RowsOfSameLoan(tx, rows) ==
  LET same(row) == trim(row.loan_id) = trim(tx.loan_id) IN SelectSeq(rows, same)

\* the three history fields of a decision of part_003
SummaryOf(d) ==
  [intentos_ciclo_actual |-> d.features.intentos_ciclo_actual,
   last_req_status       |-> d.features.last_req_status,
   failed_message        |-> d.features.failed_message]

\* C23: the summarizers accept the transactions in any order: when the rows
\* of a loan have pairwise distinct timestamps every reordering of the input
\* gives the same state, and the state is the one of the rows taken by
\* ascending timestamp, rows of the same timestamp in their input order
C23_SummaryIndependentOfInputOrder ==
  /\ pc = "buildHistoryFeaturesForLoan" =>
       /\ LET st == historyLoop(ChronologicalStable(historyRowsOf(loan[1], txRows)))
          IN  /\ result.last_req_status = st.lastStatus
              /\ result.failed_message = st.lastFailedMessage
              /\ result.intentos_ciclo_actual = st.attemptsSinceLastSuccess
       /\ DistinctTimes(historyRowsOf(loan[1], txRows)) =>
            \A q \in Reorderings(txRows) :
              buildHistoryFeaturesForLoan(historyRowsOf(loan[1], q)) = result
  /\ pc = "decideRetries_p003" =>
       /\ \A i \in 1..Len(loan) :
            LET st == summaryLoop(ChronologicalStable(historyRowsOf(loan[i], txRows)))
            IN  historyRowsOf(loan[i], txRows) # << >> =>
                  SummaryOf(result.decisions[i]) =
                    [intentos_ciclo_actual |-> st.intentosActuales,
                     last_req_status       |-> st.lastStatus,
                     failed_message        |-> st.lastFailedMessage]
       /\ (\A k \in 1..Len(txRows) : DistinctTimes(RowsOfSameLoan(txRows[k], txRows))) =>
            \A q \in Reorderings(txRows) :
              decideRetries_p003(loan, q, now) = result.decisions

\* C23 witness: features were built from three rows of the loan with
\* pairwise distinct timestamps that arrived out of order, the latest one
\* first and a success
C23_Witness ==
  /\ pc = "buildHistoryFeaturesForLoan"
  /\ Len(txRows) = 3
  /\ DistinctTimes(txRows)
  /\ txRows[1].created_at > txRows[3].created_at
  /\ txRows[3].created_at > txRows[2].created_at
  /\ txRows[1].status = s_successful
  /\ txRows[2].status = s_failed
  /\ txRows[3].status = s_failed
  /\ result.last_req_status = s_successful
  /\ result.intentos_ciclo_actual = 0

(***************************************************************************)
(* Claims about the join of loans and transactions                         *)
(***************************************************************************)

\* the rows whose loan_id equals the loan's after trimming
MatchingRows(ln) ==
  LET matches(row) == trim(row.loan_id) = trim(ln.loan_id) IN SelectSeq(txRows, matches)

\* C24: a transaction is joined to a loan exactly when their trimmed
\* loan_id values are equal, a loan without a matching transaction is
\* decided from the state {last_status: "new", last_failed_message: empty,
\* attempts_in_cycle: 0}, and the rows of other loans change nothing
C24_JoinAndEmptyHistoryDefault ==
  pc = "decideRetries_p003" =>
    \A i \in 1..Len(loan) :
      /\ result.decisions[i] = decideRetries_p003(<<loan[i]>>, MatchingRows(loan[i]), now)[1]
      /\ MatchingRows(loan[i]) = << >> =>
           SummaryOf(result.decisions[i]) =
             [intentos_ciclo_actual |-> 0, last_req_status |-> s_new, failed_message |-> << >>]

\* C24, the join alone: every orchestrator decides a loan from the rows
\* whose trimmed loan_id equals the loan's, whatever other rows the call
\* holds, and the handler of part_005 gives a loan without rows the state
\* of the claim
C24_JoinByTrimmedLoanId ==
  /\ pc = "decideRetries_p003" =>
       \A i \in 1..Len(loan) :
         result.decisions[i] = decideRetries_p003(<<loan[i]>>, MatchingRows(loan[i]), now)[1]
  /\ (pc = "handler_p005" /\ result.status = 200) =>
       \A i \in 1..Len(loan) :
         LET f == result.decisions[i].features
         IN  /\ [k \in {"last_req_status", "failed_message"} |-> f[k]]
                  = [k \in {"last_req_status", "failed_message"} |->
                       buildHistoryFeaturesForLoan(MatchingRows(loan[i]))[k]]
             /\ MatchingRows(loan[i]) = << >> =>
                  /\ f.last_req_status = s_new
                  /\ f.failed_message = << >>
                  /\ f.intentos_ciclo_actual = Num(0)

(***************************************************************************)
(* SpecBands: decideRetries of part_001 on a loan whose last attempt lies  *)
(* a chosen number of hours before now, for decision moments on every day  *)
(* of four months of two years                                             *)
(***************************************************************************)

InitBands ==
  /\ pc = "call"
  \* every day of January, February, March and December of 2024 and 2025,
  \* at midnight and at 09:00 UTC
  /\ now \in {DateUTC(y, m, d, h) :
                y \in {2024, 2025}, m \in {0, 1, 2, 11}, d \in 1..31, h \in {0, 9}}
  \* a loan of 2000, with or without an overdue_at of 10 December 2023
  /\ loan \in {LoanWith(Num(Money(2000)), Undefined, Undefined, Num(30), Undefined,
                        bank_BBVA, << >>, overdueAt, 0) :
                 overdueAt \in {0, DateUTC(2023, 11, 10, 0)}}
  \* no attempt yet, or a last attempt 1, 4, 4.5, 5, 14, 14.5, 15 or 31
  \* days before now
  /\ \/ txRows = << >>
     \/ \E age \in {24, 96, 108, 120, 336, 348, 360, 744} :
          txRows = <<TxRow(l_L2, s_failed, msg_insuficiencia, << >>, now - age, 0)>>
  /\ config \in {NoBodyConfig, [minDaysBetweenAttempts |-> 3]}
  /\ features = [loan_id |-> "L1"]
  /\ result = [outcome |-> "none"]
  /\ request = [handler |-> "none"]
  /\ calls = << >>
  /\ history = << >>

\* next15or30(now) of src/unnamed/part_001, a Date
Call_next15or30 ==
  /\ pc = "call"
  /\ pc' = "next15or30"
  /\ result' = [outcome |-> "returned", date |-> next15or30(now)]
  /\ UNCHANGED <<features, config, now, loan, txRows, request, calls, history>>

NextBands ==
  \/ Call_decideRetries_p001
  \/ Call_next15or30

SpecBands == InitBands /\ [][NextBands]_vars

(***************************************************************************)
(* Claims about the dates of the scoring mode                              *)
(***************************************************************************)

\* the hours since the last attempt, or since overdue_at when there is no
\* attempt; 999 days when there is neither
HoursSinceLast ==
  IF LatestFirstHistory # << >> THEN now - LatestFirstHistory[1].created_at
  ELSE IF loan.overdue_at # 0 THEN now - loan.overdue_at
  ELSE 999 * 24

\* the last-attempt or overdue-reference dates of the loan; now when it has
\* neither
ReferenceDates ==
  LET dates == (IF LatestFirstHistory # << >> THEN {LatestFirstHistory[1].created_at} ELSE {})
                 \cup (IF loan.overdue_at # 0 THEN {loan.overdue_at} ELSE {})
  IN  IF dates = {} THEN {now} ELSE dates

\* the dates the bands of the claim allow before the minimum gap: a value
\* between two bands may take the date of either neighbour
BandDatesClaimed ==
  (IF HoursSinceLast < 5 * 24 THEN {addDays(now, 1)} ELSE {})
    \cup (IF HoursSinceLast > 4 * 24 /\ HoursSinceLast < 15 * 24 THEN {next15or30(now)} ELSE {})
    \cup (IF HoursSinceLast > 14 * 24 THEN {next15or30(b) : b \in ReferenceDates} ELSE {})

\* the returned date for a band date: not before the gap floor when a last
\* attempt exists, and replaced when it is not after now
AfterGapAndNow(date) ==
  LET gapped == IF LatestFirstHistory # << >> /\ date < GapFloor THEN GapFloor ELSE date
  IN  IF gapped <= now THEN next15or30(addDays(now, 1)) ELSE gapped

\* C25: on the scoring path the returned date comes from the date of the
\* band of days since the last attempt: at most 4 days now + 1 day, 5 to 14
\* days next15or30(now), 15 days or more next15or30 of the last-attempt or
\* overdue date; a value between two bands falls in one of the two
C25_BandByDaysSinceLastAttempt ==
  ScoringPathDone =>
    result.proposed_charge_date \in {toISOString(AfterGapAndNow(d)) : d \in BandDatesClaimed}

\* C25, the values inside a band: when days since the last attempt is at
\* most 4, from 5 to 14, or at least 15, the returned date comes from the
\* date of that band
C25_BandsOfWholeDays ==
  (/\ ScoringPathDone
   /\ ~(HoursSinceLast > 4 * 24 /\ HoursSinceLast < 5 * 24)
   /\ ~(HoursSinceLast > 14 * 24 /\ HoursSinceLast < 15 * 24))
  => result.proposed_charge_date \in {toISOString(AfterGapAndNow(d)) : d \in BandDatesClaimed}

\* the band date after the minimum gap was applied
FlooredDate ==
  LET first == bandDate(loan, LatestFirstHistory, HoursSinceLast, now)
  IN  IF LatestFirstHistory # << >> /\ first < GapFloor THEN GapFloor ELSE first

\* C26: every proposed_charge_date of the scoring mode is strictly after
\* now: a date that is not after now once the minimum gap is applied is
\* replaced by next15or30(now + 1 day), and next15or30(x) is strictly after
\* x for every x
C26_ProposedDateAfterNow ==
  /\ ScoringPathDone =>
       /\ IsoTime(result.proposed_charge_date) > now
       /\ FlooredDate <= now =>
            result.proposed_charge_date = toISOString(next15or30(addDays(now, 1)))
  /\ pc = "next15or30" => result.date > now

\* C26 witness: the last attempt was 4.5 days ago, the band date and the
\* gap floor are both before now, and the returned date is the semi-monthly
\* date after tomorrow
C26_Witness ==
  /\ ScoringPathDone
  /\ HoursSinceLast = 108
  /\ LatestFirstHistory # << >>
  /\ GapFloor < now
  /\ FlooredDate = GapFloor
  /\ now = DateUTC(2024, 0, 14, 0)
  /\ result.proposed_charge_date = toISOString(DateUTC(2024, 0, 30, 0))

(***************************************************************************)
(* Claims about the dates of the rule cascades                             *)
(***************************************************************************)

\* the cascade returned a RETRY or a SCHEDULE decision
RetryOrScheduleDecided ==
  /\ RuleCallDone
  /\ result.outcome = "returned"
  /\ result.decision \in {"RETRY", "SCHEDULE"}

\* C27: every RETRY or SCHEDULE decision of a rule cascade carries a
\* next_attempt_date that is not earlier than the decision moment now, on
\* every day of the month and at every time of day
C27_NextAttemptDateNotBeforeNow ==
  RetryOrScheduleDecided =>
    /\ DateOf(result) # NullDate
    /\ IsoTime(DateOf(result)) >= now

\* C27, the RETRY decisions of decideLoanV2 of the lib and of part_004: the
\* date is not earlier than now
C27_RetryDateNotBeforeNow ==
  (/\ RetryOrScheduleDecided
   /\ pc \in {"decideLoanV2", "decideLoanV2_p004"}
   /\ result.decision = "RETRY")
  => IsoTime(DateOf(result)) >= now

(***************************************************************************)
(* SpecStore: the handler of src/api/decide.js serves a request whose      *)
(* loans are looked up in a loan_transactions table of up to thirteen rows *)
(* a loan                                                                  *)
(***************************************************************************)

InitStore ==
  LET \* a loan of 2000 at BBVA, ten days overdue
      loanOf(id) == [LoanWith(Num(Money(2000)), Undefined, Undefined, Num(10), Undefined,
                              bank_BBVA, << >>, 0, 0) EXCEPT !.loan_id = id]
      ids == {l_L2, <<76,51>>, <<76,52>>, <<76,53>>}
      \* the rows of the table: n2 failed charges of L2, a day apart; n3
      \* charges of L3, the eleventh latest a success; one success of L5;
      \* none of L4
      rowsL2(n2) == [k \in 1..n2 |->
                       TxRow(l_L2, s_failed, msg_insuficiencia, << >>, HistoryNow - 24 * k, 0)]
      rowsL3(n3) == [k \in 1..n3 |->
                       TxRow(<<76,51>>, IF k = 11 THEN s_successful ELSE s_failed, << >>, << >>,
                             HistoryNow - 24 * k - 12, 0)]
      rowL5      == <<TxRow(<<76,53>>, s_successful, << >>, << >>, HistoryNow - 6, 0)>>
      oldestFirst(rows) == [k \in 1..Len(rows) |-> rows[Len(rows) + 1 - k]]
  IN  /\ pc = "received"
      /\ request \in {r \in RequestInputs : r.handler = "api_decide" /\ r.DECISION_API_KEY = "k1"
                                            /\ r.x_api_key # "k2"}
      /\ loan \in SeqsUpTo({loanOf(id) : id \in ids}, 4)
      /\ \E n2 \in {0, 9, 10, 11, 13}, n3 \in {0, 11}, ascending \in BOOLEAN :
           txRows = IF ascending THEN oldestFirst(rowsL2(n2)) \o rowL5 \o oldestFirst(rowsL3(n3))
                                 ELSE rowsL3(n3) \o rowL5 \o rowsL2(n2)
      /\ config = NoBodyConfig
      /\ now = HistoryNow
      /\ features = [loan_id |-> "L1"]
      /\ result = [outcome |-> "none"]
      /\ calls = << >>
      /\ history = << >>

SpecStore == InitStore /\ [][NextAuth]_vars

\* the rows of a sequence that carry one loan_id, as a set
RowsOfLoanId(rows, id) == {rows[i] : i \in {k \in 1..Len(rows) : rows[k].loan_id = id}}

\* the handler of src/api/decide.js holds the history it fetched
HistoryFetched ==
  /\ request.handler = "api_decide"
  /\ \/ pc = "decide"
     \/ pc = "responded" /\ result.status = 200 /\ calls = <<"store", "engine">>

\* the history holds, of one loan, the rows of the table with the latest
\* created_at, at most maxPerLoan of them
LatestOfLoanKept(id) ==
  LET kept    == RowsOfLoanId(history, id)
      inTable == RowsOfLoanId(txRows, id)
  IN  /\ kept \subseteq inTable
      /\ Cardinality(kept) = IF Cardinality(inTable) < maxPerLoan THEN Cardinality(inTable)
                                                                 ELSE maxPerLoan
      /\ Cardinality(kept) <= 10
      /\ \A r \in kept, q \in inTable \ kept : q.created_at < r.created_at

\* C28: the history that the handler of src/api/decide.js passes to the
\* engine holds no row twice and no row of a loan that was not asked for,
\* and for each loan of the request the rows with the latest created_at,
\* at most maxPerLoan (10) of them, in one chunk of loan ids or in several;
\* the attempts that the engines count on it (the rows of the loan in
\* part_001, intentos_ciclo_actual in part_003) are at most 10, and no
\* decision is "STOP: Máximo de Intentos (12)"
C28_HistoryOfLatestTenPerLoan ==
  HistoryFetched =>
    /\ Cardinality({history[i] : i \in 1..Len(history)}) = Len(history)
    /\ \A i \in 1..Len(history) : \E k \in 1..Len(loan) : history[i].loan_id = loanIdOf(loan[k])
    /\ \A k \in 1..Len(loan) :
         /\ LatestOfLoanKept(loanIdOf(loan[k]))
         /\ Len(txOfLoan(loan[k], history)) <= 10
    /\ pc = "responded" =>
         \A k \in 1..Len(result.decisions) :
           /\ result.decisions[k].features.intentos_ciclo_actual <= 10
           /\ result.decisions[k].decision_reason # "STOP: Máximo de Intentos (12)"

\* three loans are fetched in two chunks, L2 in the second; the table has thirteen
\* rows of L2, the handler answered with ten attempts for it
C28_Witness ==
  /\ HistoryFetched
  /\ pc = "responded"
  /\ Len(loanIdsOf(loan)) > chunkSize
  /\ loanIdsOf(loan)[Len(loanIdsOf(loan))] = l_L2
  /\ Cardinality(RowsOfLoanId(txRows, l_L2)) = 13
  /\ Cardinality(RowsOfLoanId(history, l_L2)) = 10
  /\ Cardinality(RowsOfLoanId(history, <<76,51>>)) = 10
  /\ \E k \in 1..Len(result.decisions) :
       /\ result.decisions[k].loan_id = l_L2
       /\ result.decisions[k].features.intentos_ciclo_actual = 10
       /\ result.decisions[k].decision = "RETRY"

(***************************************************************************)
(* Claims about the last rules of the cascade and about the attempt        *)
(* counter                                                                 *)
(***************************************************************************)

\* decideLoanV2 of src/lib/smart-retry-core.js went past its thirteen
\* first rules: a decision of the Default rule, or the ReferenceError of
\* its date when the mid-range rule (the other caller of standardRetryDate)
\* does not apply
DefaultRuleReached ==
  \/ result.outcome = "returned" /\ result.decision_reason = "RETRY: Estándar"
  \/ result.outcome = "thrown" /\ ~isMidRange(OverdueRead)

\* C29: under the default configuration decideLoanV2 of
\* src/lib/smart-retry-core.js never reaches its final Default rule
\* ("RETRY: Estándar"): the overdue days it reads are an integer that is
\* fresh (<= 5), mid-range (6-20) or aged (> 20)
C29_DefaultRuleUnreachable ==
  (pc = "decideLoanV2" /\ config = DEFAULT_DECISION_CONFIG) =>
    /\ ~DefaultRuleReached
    /\ isFresh(OverdueRead, config) \/ isMidRange(OverdueRead) \/ isAged(OverdueRead)

\* a loan of six days, just past the fresh threshold, passes the eleven
\* rules before and is taken by the mid-range rule
C29_Witness ==
  /\ pc = "decideLoanV2"
  /\ config = DEFAULT_DECISION_CONFIG
  /\ features.overdue_days = Num(6)
  /\ ~isFresh(OverdueRead, config)
  /\ result.outcome = "thrown"

\* the same features with another attempt counter
WithAttempts(b) == [features EXCEPT !.intentos_ciclo_actual = Num(b)]

\* what the cascade that was called answers for another attempt counter
DecisionWithAttempts(b) ==
  IF pc = "decideLoanV2" THEN decideLoanV2(WithAttempts(b), now, config)
                         ELSE decideLoanV2_p004(WithAttempts(b), now)

\* the attempt counters above the one of the call, up to one past every
\* limit of the configurations
LargerCounters ==
  {b \in 0..15 : features.intentos_ciclo_actual.t = "number"
                   /\ b > features.intentos_ciclo_actual.n}

\* C30: when decideLoanV2 (src/lib/smart-retry-core.js, and
\* src/unnamed/part_004) answers STOP for a numeric attempt counter a, it
\* answers STOP for every larger counter, the other fields, the moment and
\* the configuration being the same
C30_StopMonotoneInAttempts ==
  (/\ pc \in {"decideLoanV2", "decideLoanV2_p004"}
   /\ result.outcome = "returned"
   /\ result.decision = "STOP")
  => \A b \in LargerCounters :
       /\ DecisionWithAttempts(b).outcome = "returned"
       /\ DecisionWithAttempts(b).decision = "STOP"

\* a loan stopped by the attempt limit at a counter equal to the limit;
\* one attempt less is not stopped
C30_Witness ==
  /\ pc = "decideLoanV2"
  /\ result.outcome = "returned"
  /\ result.decision = "STOP"
  /\ features.intentos_ciclo_actual = Num(config.maxAttempts)
  /\ config.maxAttempts = 12
  /\ result.decision_reason = "STOP: Máximo de Intentos (12)"
  /\ DecisionWithAttempts(11).outcome = "thrown" \/ DecisionWithAttempts(11).decision # "STOP"
  /\ LargerCounters = {13, 14, 15}

====
